---------------------------- MODULE Spec2Model ----------------------------
(***************************************************************************)
(* A model of booglanim's renderer (src-tauri/src): the scene flattener    *)
(* and draw batch compiler (renderer/render_data.rs), the transform        *)
(* algebra (interface.rs), the video export loop (renderer/video.rs) and   *)
(* the render loop with its export threads (renderer/mod.rs).              *)
(*                                                                         *)
(* Numbers: f32 scene values are modelled by integers (depths, matrix      *)
(* entries), rotation angles by multiples of 90 degrees so that cos and    *)
(* sin are exact.                                                          *)
(***************************************************************************)
EXTENDS Integers, Sequences, FiniteSets, TLC

(***************************************************************************)
(* Bounds of the model.                                                    *)
(***************************************************************************)
\* containers (nodes and leaves together) in one generated frame
MaxSize == 4

\* the fixed-point number that stands for the f32 1.0 in to_linear_rgb
FixedOne == 32768

\* the relative depths z a node may have
Depths == {0, 1}

\* frames of a video handed to export_video on its own
MaxFrames == 3

\* signals waiting in the channel at one time
MaxChan == 2

\* export requests in one run of the renderer thread
MaxExports == 2

(***************************************************************************)
(* interface.rs: the scene description.                                    *)
(***************************************************************************)
Point(x, y) == [x |-> x, y |-> y]

\* interface.rs Transform { pos, scale, angle }
Transform(pos, scale, angle) == [pos |-> pos, scale |-> scale, angle |-> angle]

\* Transform::identity()
TransformIdentity == Transform(Point(0, 0), Point(1, 1), 0)

\* angle.to_radians().cos() / .sin() on the angles the model uses
Cos(angle) == CASE angle % 360 = 0 -> 1
                [] angle % 360 = 90 -> 0
                [] angle % 360 = 180 -> -1
                [] angle % 360 = 270 -> 0

Sin(angle) == CASE angle % 360 = 0 -> 0
                [] angle % 360 = 90 -> 1
                [] angle % 360 = 180 -> 0
                [] angle % 360 = 270 -> -1

\* a product with its operands exchanged: result[i][j] += other[i][k] * self[k][j]
multiply_swapped(self, other) ==
    LET entry(i, j) ==
            other[i][1] * self[1][j] + other[i][2] * self[2][j] + other[i][3] * self[3][j]
    IN << <<entry(1, 1), entry(1, 2), entry(1, 3)>>,
          <<entry(2, 1), entry(2, 2), entry(2, 3)>>,
          <<entry(3, 1), entry(3, 2), entry(3, 3)>> >>

\* Transformation2D::multiply: result[i][j] += self[i][k] * other[k][j]
multiply(self, other) ==
    LET entry(i, j) ==
            self[i][1] * other[1][j] + self[i][2] * other[2][j] + self[i][3] * other[3][j]
    IN << <<entry(1, 1), entry(1, 2), entry(1, 3)>>,
          <<entry(2, 1), entry(2, 2), entry(2, 3)>>,
          <<entry(3, 1), entry(3, 2), entry(3, 3)>> >>

\* a matrix whose displacement also writes its third row
to_transformation_projective(t) ==
    LET displacement == << <<1, 0, t.pos.x>>, <<0, 1, t.pos.y>>, <<t.pos.x, 0, 1>> >>
        scale == << <<t.scale.x, 0, 0>>, <<0, t.scale.y, 0>>, <<0, 0, 1>> >>
        rotation == << <<Cos(t.angle), -Sin(t.angle), 0>>,
                       <<Sin(t.angle), Cos(t.angle), 0>>,
                       <<0, 0, 1>> >>
    IN multiply(displacement, multiply(scale, rotation))

\* Transform::to_transformation: displacement.multiply(scale.multiply(rotation))
to_transformation(t) ==
    LET displacement == << <<1, 0, t.pos.x>>, <<0, 1, t.pos.y>>, <<0, 0, 1>> >>
        scale == << <<t.scale.x, 0, 0>>, <<0, t.scale.y, 0>>, <<0, 0, 1>> >>
        rotation == << <<Cos(t.angle), -Sin(t.angle), 0>>,
                       <<Sin(t.angle), Cos(t.angle), 0>>,
                       <<0, 0, 1>> >>
    IN multiply(displacement, multiply(scale, rotation))

\* Transformation2D::apply_to: rows times [x, y, 1], then the divide by w
apply_to(m, pt) ==
    LET row(i) == m[i][1] * pt[1] + m[i][2] * pt[2] + m[i][3] * 1
        result == <<row(1), row(2), row(3)>>
    IN <<result[1] \div result[3], result[2] \div result[3]>>

\* Rect { x, y, w, h }
Rect(x, y, w, h) == [x |-> x, y |-> y, w |-> w, h |-> h]

\* Option<Rect>: None and Some(rect)
NoSubrect == <<>>

SomeSubrect(rect) == <<rect>>

\* Color { r, g, b }, each a u8
Color(r, g, b) == <<r, g, b>>

\* the three control points of a Bezier that says nothing else
DefaultPoints == <<Point(0, 0), Point(2, 0), Point(2, 2)>>

\* Object::Img(Img { id, subrect })
ImgOf(id, subrect) ==
    [kind |-> "Img", id |-> id, tess |-> "none", subrect |-> subrect,
     thickness |-> 0, color |-> Color(0, 0, 0), points |-> <<>>]

\* an Img without a subrect
Img(id) == ImgOf(id, NoSubrect)

\* Object::Text(Text { .. })
Text ==
    [kind |-> "Text", id |-> 0, tess |-> "none", subrect |-> NoSubrect,
     thickness |-> 0, color |-> Color(0, 0, 0), points |-> <<>>]

\* Object::Bezier(Bezier { thickness, color, points }); tess is lyon's
\* verdict on the stroke of this path (tessellate_path returns Ok or Err;
\* lyon is a library)
BezierOf(tess, thickness, color, points) ==
    [kind |-> "Bezier", id |-> 0, tess |-> tess, subrect |-> NoSubrect,
     thickness |-> thickness, color |-> color, points |-> points]

\* a black Bezier of thickness 1 through DefaultPoints
Bezier(tess) == BezierOf(tess, 1, Color(0, 0, 0), DefaultPoints)

\* Container::Leaf(object) and Container::Node(node)
Leaf(object) == [tag |-> "Leaf", object |-> object]

Node(z, transform, visible, children) ==
    [tag |-> "Node", z |-> z, transform |-> transform, visible |-> visible,
     children |-> children]

(***************************************************************************)
(* The frames the model draws its inputs from: every forest of at most     *)
(* MaxSize containers, grown one container at a time in preorder (a new    *)
(* container becomes the last child of a node on the rightmost path), so   *)
(* that every ordered forest is built in exactly one way.                  *)
(***************************************************************************)
\* image ids a leaf may name
ImageIds == {1, 2}

Objects == {Img(id) : id \in ImageIds} \cup {Text, Bezier("ok")}

Transforms == {TransformIdentity}

RECURSIVE Size(_)
\* the number of containers in a sequence of containers
Size(children) ==
    IF children = <<>> THEN 0
    ELSE LET c == Head(children)
         IN 1 + (IF c.tag = "Node" THEN Size(c.children) ELSE 0) + Size(Tail(children))

RECURSIVE RightDepth(_)
\* the number of nodes on the rightmost path of a sequence of containers
RightDepth(children) ==
    IF children = <<>> \/ children[Len(children)].tag = "Leaf" THEN 0
    ELSE 1 + RightDepth(children[Len(children)].children)

RECURSIVE AppendAt(_, _, _)
\* children with container c made the last child of the d-th node of the
\* rightmost path (d = 0: the last of children itself)
AppendAt(children, d, c) ==
    IF d = 0 THEN Append(children, c)
    ELSE [children EXCEPT ![Len(children)] =
             [@ EXCEPT !.children = AppendAt(@, d - 1, c)]]

\* interface.rs FrameDescription { things, settings }, bg defaulting to black
FrameDescription(things) == [things |-> things, settings |-> [bg |-> <<0, 0, 0>>]]

\* the image registries (media_resources.images: id -> image, here its
\* width and height)
Registry(ids) == [id \in ids |-> [w |-> 2, h |-> 1]]

Registries == {Registry({1}), Registry({1, 2})}


(***************************************************************************)
(* State.                                                                  *)
(***************************************************************************)
VARIABLES
    \* RenderData::new, one call: its arguments, its locals, its result
    scene,          \* frame_description: &FrameDescription
    registry,       \* images: &HashMap<u32, DynamicImage>
    stage,          \* "scene": the caller builds the frame; "compiled": new returned or panicked
    discovered,     \* frame_description_to_objects: objects before sort_by
    objects,        \* frame_description_to_objects: the Vec it returns
    render_data     \* RenderData { buffers, render_order }, or the panic

frameVars == <<scene, registry, stage, discovered, objects, render_data>>

VARIABLES
    \* renderer/mod.rs run: the renderer thread
    chan,               \* the mpsc channel behind signal_rx, oldest signal first
    loop,               \* where run is: "wait", "events", "drain", "rendering", "exit", "crashed"
    video_description,  \* Arc<Mutex<VideoDescription>>: the value
    media_resources,    \* Arc<Mutex<MediaResources>>: the images
    texture_pipeline_bind_groups,  \* of image_renderer: the image ids it has a bind group for
    reverse,            \* let mut reverse
    playing,            \* let mut playing
    frame,              \* let mut frame: the play head
    latest_image,       \* let mut latest_image: Option<image>
    redraw,             \* the RedrawRequested being handled or just handled: how it
                        \* ended, the image handed to the window, the surface
                        \* result, who held the locks it missed
    held,               \* per mutex: the threads holding its guard (none or one)
    poisoned,           \* the mutexes a panicking holder poisoned
    exporter,           \* per export thread: where it is, its locals
    reply               \* request_handlers.rs: what the last command returned,
                        \* "Ok" or "Err" ("none" before the first command)

loopVars == <<chan, loop, video_description, media_resources,
              texture_pipeline_bind_groups, reverse, playing, frame, latest_image,
              redraw>>

lockVars == <<held, poisoned>>

vars == <<frameVars, loopVars, lockVars, exporter, reply>>

(***************************************************************************)
(* render_data.rs: frame_description_to_objects.                           *)
(***************************************************************************)
\* a traversal that prunes nothing
SkippedNever(node) == FALSE

\* line 65: if !node.visible { continue; }
Skipped(node) == ~node.visible

RECURSIVE VisitChildren(_, _, _, _, _)
\* lines 69-75, from child i on: a Node child goes to the FRONT of the
\* queue, a Leaf child to the end of objects; a reference &Object is the
\* path of the leaf in the frame
VisitChildren(item, i, z, queue, objs) ==
    IF i > Len(item.node.children) THEN [queue |-> queue, objects |-> objs]
    ELSE LET child == item.node.children[i]
             transformation ==
                 multiply(item.global_transform, to_transformation(item.node.transform))
             path == Append(item.path, i)
         IN IF child.tag = "Node"
            THEN VisitChildren(item, i + 1, z,
                     <<[node |-> child, global_transform |-> transformation,
                        z |-> z, path |-> path]>> \o queue,
                     objs)
            ELSE VisitChildren(item, i + 1, z, queue,
                     Append(objs, [object |-> child.object,
                                   transformation |-> transformation,
                                   z |-> z, path |-> path]))

RECURSIVE TraverseQueue(_, _)
\* lines 64-76: while let Some(..) = queue.pop_front()
TraverseQueue(queue, objs) ==
    IF queue = <<>> THEN objs
    ELSE LET item == Head(queue)
             rest == Tail(queue)
         IN IF Skipped(item.node) THEN TraverseQueue(rest, objs)
            ELSE LET r == VisitChildren(item, 1, item.node.z + item.z, rest, objs)
                 IN TraverseQueue(r.queue, r.objects)

\* a queue in which a root starts from the depth of the root before it
InitialQueueCarry(frame_description) ==
    [i \in 1..Len(frame_description.things) |->
        [node |-> frame_description.things[i],
         global_transform |-> to_transformation(TransformIdentity),
         z |-> IF i = 1 THEN 0 ELSE frame_description.things[i - 1].z,
         path |-> <<i>>]]

\* lines 57-62: the queue of the root nodes, identity transform, depth 0
InitialQueue(frame_description) ==
    [i \in 1..Len(frame_description.things) |->
        [node |-> frame_description.things[i],
         global_transform |-> to_transformation(TransformIdentity),
         z |-> 0, path |-> <<i>>]]

RECURSIVE DequeueOrder(_, _)
\* lines 64-76 again, keeping what the loop pops instead of what it
\* pushes to objects: the paths of the nodes in the order of pop_front
DequeueOrder(queue, visited) ==
    IF queue = <<>> THEN visited
    ELSE LET item == Head(queue)
             rest == Tail(queue)
         IN IF Skipped(item.node) THEN DequeueOrder(rest, Append(visited, item.path))
            ELSE DequeueOrder(
                     VisitChildren(item, 1, item.node.z + item.z, rest, <<>>).queue,
                     Append(visited, item.path))

\* the nodes of the frame in the order frame_description_to_objects
\* dequeues them
Dequeued(frame_description) == DequeueOrder(InitialQueue(frame_description), <<>>)

RECURSIVE InsertByZ(_, _)
\* sorted with x placed after every element whose z is <= x.z
InsertByZ(sorted, x) ==
    IF sorted = <<>> THEN <<x>>
    ELSE IF Head(sorted).z <= x.z THEN <<Head(sorted)>> \o InsertByZ(Tail(sorted), x)
         ELSE <<x>> \o sorted

RECURSIVE InsertBeforeTies(_, _)
\* a sort that is not stable: x is placed before the elements of equal z
InsertBeforeTies(sorted, x) ==
    IF sorted = <<>> THEN <<x>>
    ELSE IF Head(sorted).z < x.z
         THEN <<Head(sorted)>> \o InsertBeforeTies(Tail(sorted), x)
         ELSE <<x>> \o sorted

RECURSIVE sort_unstable_by(_)
sort_unstable_by(objs) ==
    IF objs = <<>> THEN <<>>
    ELSE InsertBeforeTies(sort_unstable_by(SubSeq(objs, 1, Len(objs) - 1)), objs[Len(objs)])

RECURSIVE sort_by(_)
\* line 77: objects.sort_by(|a, b| a.z.total_cmp(b.z)), a stable sort
sort_by(objs) ==
    IF objs = <<>> THEN <<>>
    ELSE InsertByZ(sort_by(SubSeq(objs, 1, Len(objs) - 1)), objs[Len(objs)])

\* lines 78-81: the depth is dropped from every element
DropZ(objs) ==
    [i \in 1..Len(objs) |->
        [object |-> objs[i].object, transformation |-> objs[i].transformation,
         path |-> objs[i].path]]

\* the objects vec when the loop ends (before line 77)
TraverseFrame(frame_description) ==
    TraverseQueue(InitialQueue(frame_description), <<>>)

frame_description_to_objects(frame_description) ==
    DropZ(sort_by(TraverseFrame(frame_description)))

(***************************************************************************)
(* render_data.rs: RenderData::new.                                        *)
(***************************************************************************)
\* lines 151-162: lyon's tessellate_path on the stroke of a Bezier, then
\* .expect(..): the geometry (vertex and index counts), or Err
tessellate_path(bez) ==
    IF bez.tess = "ok" THEN [ok |-> TRUE, vertices |-> 4, indices |-> 6]
    ELSE [ok |-> FALSE, vertices |-> 0, indices |-> 0]

(***************************************************************************)
(* interface.rs: Color::to_linear_rgb.  The f32 results are kept in fixed  *)
(* point, FixedOne standing for 1.0 and every operation rounding down.     *)
(***************************************************************************)
\* the fixed-point product of two fixed-point numbers
FixedMul(a, b) == (a * b) \div FixedOne

\* the fifth power of a fixed-point number
Pow5(r) == FixedMul(FixedMul(FixedMul(FixedMul(r, r), r), r), r)

RECURSIVE Root5Between(_, _, _)
\* the largest r of lo..hi whose fifth power is at most v
Root5Between(v, lo, hi) ==
    IF lo = hi THEN lo
    ELSE LET m == (lo + hi + 1) \div 2
         IN IF Pow5(m) <= v THEN Root5Between(v, m, hi)
            ELSE Root5Between(v, lo, m - 1)

\* y.powf(2.4) for y of 0..FixedOne: y^2 times the fifth root of y^2
powf_2_4(y) ==
    LET square == FixedMul(y, y)
    IN FixedMul(square, Root5Between(square, 0, FixedOne))

\* a gamma curve whose linear segment divides by 1.292
LinearChannelSteep(c) ==
    IF c * 100000 > 4045 * 255
    THEN powf_2_4(((40 * c + 561) * FixedOne) \div 10761)
    ELSE (c * 1000 * FixedOne) \div 329460

\* lines 21-26: x = c / 255; x > 0.04045 picks ((x + 0.055) / 1.055)^2.4,
\* else x / 12.92.  (c/255 + 0.055) / 1.055 is (40 c + 561) / 10761 and
\* (c/255) / 12.92 is 100 c / 329460.
LinearChannel(c) ==
    IF c * 100000 > 4045 * 255
    THEN powf_2_4(((40 * c + 561) * FixedOne) \div 10761)
    ELSE (c * 100 * FixedOne) \div 329460

\* lines 19-28: [self.r, self.g, self.b].map(..)
to_linear_rgb(color) ==
    <<LinearChannel(color[1]), LinearChannel(color[2]), LinearChannel(color[3])>>

(***************************************************************************)
(* render_data.rs: what RenderData::new hands to lyon for a Bezier and the *)
(* vertices it writes for an Img.                                          *)
(***************************************************************************)
\* a mid that returns its first point
mid_first(a, b) == a

\* lines 108-113: mid; (a + b) * 0.5, exact here as the sums are even
mid(a, b) == Point((a.x + b.x) \div 2, (a.y + b.y) \div 2)

\* lines 115-117: dist
dist(a, b) == (b[1] - a[1]) ^ 2 + (b[2] - a[2]) ^ 2

\* lines 119-124: the scale of a transformation
StrokeScale(transformation) ==
    LET origin == apply_to(transformation, <<0, 0>>)
        unit_x == apply_to(transformation, <<1, 0>>)
        unit_y == apply_to(transformation, <<0, 1>>)
        x_scaling == dist(unit_x, origin)
        y_scaling == dist(unit_y, origin)
    IN IF x_scaling <= y_scaling THEN x_scaling ELSE y_scaling

\* lines 126-131: the control points of bez through the transformation
TransformedPoints(bez, transformation) ==
    [i \in DOMAIN bez.points |->
        LET q == apply_to(transformation, <<bez.points[i].x, bez.points[i].y>>)
        IN Point(q[1], q[2])]

\* lines 133-141: begin, cubic_bezier_to, end(false)
StrokePath(bez, transformation) ==
    LET points == TransformedPoints(bez, transformation)
    IN [begin |-> points[1],
        ctrl1 |-> mid(points[1], points[2]),
        ctrl2 |-> mid(points[2], points[3]),
        to |-> points[3],
        close |-> FALSE]

\* lines 146-149: StrokeOptions
StrokeOptionsOf(bez, transformation) ==
    [line_width |-> bez.thickness * StrokeScale(transformation),
     line_cap |-> "Round"]

\* lines 126-160: the stroke lyon tessellates and the colour of its vertices
Stroke(bez, transformation) ==
    [path |-> StrokePath(bez, transformation),
     stroke_options |-> StrokeOptionsOf(bez, transformation),
     color |-> to_linear_rgb(bez.color)]

\* tex_coords that put the same corner of the texture on every vertex
TexCoordsCollapsed(subrect) ==
    <<<<subrect.x, 1 - subrect.y>>, <<subrect.x, 1 - subrect.y>>,
      <<subrect.x, 1 - subrect.y>>, <<subrect.x, 1 - subrect.y>>>>

\* lines 196-211: the tex_coords of the four vertices, in the order of the
\* corners (-w/2, -h/2), (w/2, -h/2), (w/2, h/2), (-w/2, h/2)
TexCoords(subrect) ==
    <<<<subrect.x, 1 - subrect.y>>, <<subrect.w, 1 - subrect.y>>,
      <<subrect.w, 1 - subrect.h>>, <<subrect.x, 1 - subrect.h>>>>

\* lines 184-193: &img.subrect, or else Rect { x: 0, y: 0, w: 1, h: 1 }
SubrectOf(img) == IF img.subrect = NoSubrect THEN Rect(0, 0, 1, 1) ELSE img.subrect[1]

\* lines 184-218: the four TextureVertex of an Img, each with the corner of
\* the quad it sits on (the signs of its position before the
\* transformation) and its tex_coords
Quad(img) ==
    LET corners == <<<<-1, -1>>, <<1, -1>>, <<1, 1>>, <<-1, 1>>>>
        tex_coords == TexCoords(SubrectOf(img))
    IN [i \in 1..4 |-> [corner |-> corners[i], tex_coords |-> tex_coords[i]]]

\* pipelines.rs texture_pipeline: one bind group per image of the registry
texture_pipeline(images) == DOMAIN images

\* the locals of RenderData::new before the loop (lines 94-100)
CompileStart ==
    [status |-> "ok", message |-> "",
     texture_vertices_index |-> 0, texture_vertices |-> 0,
     triangle_vertices |-> 0, triangle_indices |-> 0,
     strokes |-> <<>>, quads |-> <<>>,
     render_order |-> <<>>]

\* a panic inside the loop: RenderData::new does not return
CompilePanic(message) ==
    [status |-> "panic", message |-> message,
     texture_vertices_index |-> 0, texture_vertices |-> 0,
     triangle_vertices |-> 0, triangle_indices |-> 0,
     strokes |-> <<>>, quads |-> <<>>,
     render_order |-> <<>>]

\* lines 103-177: Object::Bezier
CompileBezier(acc, bez, transformation) ==
    LET geometry == tessellate_path(bez)
    IN IF ~geometry.ok THEN CompilePanic("Error during tessellation")
       ELSE LET before == <<acc.triangle_indices, acc.triangle_vertices>>
                after == <<acc.triangle_indices + geometry.indices,
                           acc.triangle_vertices + geometry.vertices>>
            IN [acc EXCEPT
                   !.strokes = Append(@, Stroke(bez, transformation)),
                   !.triangle_indices = after[1],
                   !.triangle_vertices = after[2],
                   !.render_order = Append(@,
                       [pipeline |-> "triangle_pipeline", bind_group |-> 0,
                        vertices_buffer_id |-> 2, indices_buffer_id |-> 3,
                        indices_range |-> <<before[1], after[1]>>,
                        vertices_range |-> <<before[2], after[2]>>])]

\* a compiler that puts the batch of an image before the batches made so far
CompileImgFirst(acc, img, images, bind_groups) ==
    IF img.id \notin DOMAIN images \/ img.id \notin bind_groups
    THEN CompilePanic("key not found")
    ELSE [acc EXCEPT
             !.quads = Append(@, Quad(img)),
             !.texture_vertices = @ + 4,
             !.texture_vertices_index = @ + 4,
             !.render_order =
                 <<[pipeline |-> "texture_pipeline", bind_group |-> img.id,
                    vertices_buffer_id |-> 0, indices_buffer_id |-> 1,
                    vertices_range |-> <<acc.texture_vertices_index,
                                         acc.texture_vertices_index + 4>>,
                    indices_range |-> <<0, 6>>]>> \o @]

\* a compiler that leaves out an image it does not find
CompileImgLenient(acc, img, images, bind_groups) ==
    IF img.id \notin DOMAIN images \/ img.id \notin bind_groups
    THEN acc
    ELSE [acc EXCEPT
             !.quads = Append(@, Quad(img)),
             !.texture_vertices = @ + 4,
             !.texture_vertices_index = @ + 4,
             !.render_order = Append(@,
                 [pipeline |-> "texture_pipeline", bind_group |-> img.id,
                  vertices_buffer_id |-> 0, indices_buffer_id |-> 1,
                  vertices_range |-> <<acc.texture_vertices_index,
                                       acc.texture_vertices_index + 4>>,
                  indices_range |-> <<0, 6>>])]

\* lines 178-230: Object::Img; images[&img.id] and
\* texture_pipeline_bind_groups[&img.id] panic on an absent key
CompileImg(acc, img, images, bind_groups) ==
    IF img.id \notin DOMAIN images \/ img.id \notin bind_groups
    THEN CompilePanic("key not found")
    ELSE [acc EXCEPT
             !.quads = Append(@, Quad(img)),
             !.texture_vertices = @ + 4,
             !.texture_vertices_index = @ + 4,
             !.render_order = Append(@,
                 [pipeline |-> "texture_pipeline", bind_group |-> img.id,
                  vertices_buffer_id |-> 0, indices_buffer_id |-> 1,
                  vertices_range |-> <<acc.texture_vertices_index,
                                       acc.texture_vertices_index + 4>>,
                  indices_range |-> <<0, 6>>])]

\* a compiler that skips Text leaves instead of panicking
CompileTextSkipped(acc) == acc

\* line 231: Object::Text(_) => panic!(..)
CompileText(acc) == CompilePanic("booglanim does not support text yet")

RECURSIVE CompileLoop(_, _, _, _)
\* lines 101-233: for (object, transformation) in the flattened list
CompileLoop(objs, acc, images, bind_groups) ==
    IF objs = <<>> \/ acc.status = "panic" THEN acc
    ELSE LET object == Head(objs).object
             next == CASE object.kind = "Bezier" ->
                             CompileBezier(acc, object, Head(objs).transformation)
                       [] object.kind = "Img" ->
                             CompileImg(acc, object, images, bind_groups)
                       [] object.kind = "Text" -> CompileText(acc)
         IN CompileLoop(Tail(objs), next, images, bind_groups)

\* RenderData::new(device, resolution, frame_description, images, .., bind groups)
RenderDataNew(frame_description, images, bind_groups) ==
    CompileLoop(frame_description_to_objects(frame_description), CompileStart,
                images, bind_groups)

\* a RenderData::new that was not called
NoRenderData == [CompileStart EXCEPT !.status = "none"]

(***************************************************************************)
(* interface.rs, signals.rs, request_handlers.rs: what the request         *)
(* handlers send over the channel.                                         *)
(***************************************************************************)
\* a frame whose only primitive is object, under one visible node
FrameOf(object) == FrameDescription(<<Node(0, TransformIdentity, TRUE, <<Leaf(object)>>)>>)

\* interface.rs VideoDescription { frames, sounds, fps }
VideoDescription(frames, fps) == [frames |-> frames, fps |-> fps]

\* mod.rs 65-69: the VideoDescription run starts with
InitialVideoDescription == VideoDescription(<<>>, 16)

\* the videos update_video_description is called with: one frame, and two
\* frames of which the second needs image 2
Videos ==
    {VideoDescription(<<FrameOf(Img(1))>>, 16),
     VideoDescription(<<FrameOf(Img(1)), FrameOf(Img(2))>>, 16)}

\* signals.rs SetFrame, and None of Option<SetFrame>
At(n) == [kind |-> "At", n |-> n]
Forward(n) == [kind |-> "Forward", n |-> n]
Back(n) == [kind |-> "Back", n |-> n]
None == [kind |-> "None", n |-> 0]

\* signals.rs Playback
Playback(is_playing, is_reverse, set_frame) ==
    [playing |-> is_playing, reverse |-> is_reverse, frame |-> set_frame]

\* request_handlers.rs 104-132: play, pause, stop, next_frame, prev_frame, reverse
Playbacks ==
    {Playback(TRUE, FALSE, None), Playback(FALSE, FALSE, None),
     Playback(FALSE, FALSE, At(0)), Playback(FALSE, FALSE, Forward(1)),
     Playback(FALSE, FALSE, Back(1)), Playback(TRUE, TRUE, None)}

\* signals.rs Signal
ExportVideo == [type |-> "ExportVideo"]
SetPlayback(p) == [type |-> "SetPlayback", playback |-> p]
UpdateVideoDescription(v) == [type |-> "UpdateVideoDescription", video |-> v]
UpdateMediaResources(r) == [type |-> "UpdateMediaResources", resources |-> r]

(***************************************************************************)
(* std::sync::Mutex, as run and the export threads use it.                 *)
(***************************************************************************)
\* the renderer thread (run); the export threads are 1..MaxExports
Main == 0

Threads == 1..MaxExports

Mutexes == {"image_renderer", "window_renderer", "video_description", "media_resources"}

\* a try_lock that never fails
TryLockAlways(mutex) == "Ok"

\* Mutex::try_lock: Err(WouldBlock) while another guard lives, else the
\* guard, inside Err(Poisoned) when a holder panicked
try_lock(mutex) ==
    IF held[mutex] # {} THEN "WouldBlock"
    ELSE IF mutex \in poisoned THEN "Poisoned"
    ELSE "Ok"

\* the guards thread who gets from the try_lock calls on mutexes
Acquire(mutexes, who) ==
    [m \in Mutexes |->
        IF m \in mutexes /\ try_lock(m) # "WouldBlock" THEN {who} ELSE held[m]]

\* Mutex::lock: the caller waits while another guard lives
lock(mutex) == held[mutex] = {}

\* a thread that keeps its guard of the window renderer when it drops the
\* others
ReleaseKeepsWindow(who) ==
    [m \in Mutexes |-> IF m = "window_renderer" THEN held[m] ELSE held[m] \ {who}]

\* thread who drops its guards
Release(who) == [m \in Mutexes |-> held[m] \ {who}]

\* a guard dropped while its thread panics poisons the mutex
PoisonedBy(who) == poisoned \cup {m \in Mutexes : who \in held[m]}

\* the threads holding the guards that made try_lock fail on mutexes
Blockers(mutexes) == UNION {held[m] : m \in mutexes}

(***************************************************************************)
(* video-rs Time, as export_video uses it.                                 *)
(***************************************************************************)
\* the time base of Time::zero(), in units per second
ZeroTimeBase == 90000

\* encoder.time_base(), in units per second
EncoderTimeBase == 1000000

\* the frame rates of an exported video
FpsValues == {7, 16, 30}

Time(time, time_base) == [time |-> time, time_base |-> time_base]

\* Time::from_nth_of_a_second(nth): one unit of 1/nth second
from_nth_of_a_second(nth) == Time(1, nth)

RECURSIVE Gcd(_, _)
Gcd(a, b) == IF b = 0 THEN a ELSE Gcd(b, a % b)

\* Rescale::rescale: time units of 1/from second in units of 1/to second,
\* rounded to the nearest
rescale(time, from, to) ==
    LET g == Gcd(from, to)
        n == to \div g
        d == from \div g
    IN (2 * time * n + d) \div (2 * d)

\* a position that is never advanced
aligned_with_stale(self, rhs) == self

\* self.aligned_with(&rhs).add(): rhs in the time base of self, added
aligned_with_add(self, rhs) ==
    Time(self.time + rescale(rhs.time, rhs.time_base, self.time_base), self.time_base)

(***************************************************************************)
(* renderers.rs ImageRenderer::render, video.rs export_video, and the      *)
(* export thread of mod.rs 108-129.                                        *)
(***************************************************************************)
\* Option<image>
NoImage == <<>>
Some(image) == <<image>>

\* mod.rs 36-37: the image of zero bytes (r, g, b, a)
black == [clear |-> <<0, 0, 0, 0>>, drawn |-> <<>>]

\* renderers.rs 413-430, one pass of the loop over render_order: the
\* pipeline and bind group set, the whole index buffer bound, the vertex
\* buffer bound as buffer.slice(vertices_range.0..vertices_range.1) (the
\* bounds of wgpu's Buffer::slice are byte addresses), then
\* draw_indexed(indices_range.0..indices_range.1, 0, 0..1)
Draw(settings) ==
    [pipeline |-> settings.pipeline, bind_group |-> settings.bind_group,
     index_buffer |-> settings.indices_buffer_id,
     vertex_buffer |-> settings.vertices_buffer_id,
     vertex_bytes |-> <<settings.vertices_range[1], settings.vertices_range[2]>>,
     indices |-> <<settings.indices_range[1], settings.indices_range[2]>>,
     base_vertex |-> 0]

\* a render pass that issues the draw calls in the opposite order
DrawCallsReversed(render_order) ==
    [i \in 1..Len(render_order) |-> Draw(render_order[Len(render_order) + 1 - i])]

\* renderers.rs 412-431: for settings in &render_data.render_order
DrawCalls(render_order) ==
    [i \in 1..Len(render_order) |-> Draw(render_order[i])]

\* a renderer that answers a frame whose geometry does not compile with
\* the cleared target instead of failing
ImageRendererRenderBlank(frame_description, images, bind_groups) ==
    LET data == RenderDataNew(frame_description, images, bind_groups)
    IN [status |-> "ok",
        image |-> [clear |-> <<0, 0, 0, 1>>,
                   drawn |-> IF data.status = "ok" THEN DrawCalls(data.render_order)
                             ELSE <<>>]]

\* ImageRenderer::render (renderers.rs 365-485): RenderData::new, then its
\* batches drawn in order over a target cleared to wgpu::Color::BLACK
ImageRendererRender(frame_description, images, bind_groups) ==
    LET data == RenderDataNew(frame_description, images, bind_groups)
    IN [status |-> data.status,
        image |-> [clear |-> <<0, 0, 0, 1>>, drawn |-> DrawCalls(data.render_order)]]

\* an export thread that was not spawned. panicked_in is the step of
\* export_video whose unwrap failed, finish_calls the calls of
\* encoder.finish(), progress the events the thread emitted to the windows
NoExport ==
    [pc |-> "unspawned", ok |-> TRUE, blocked_by |-> {}, frame_index |-> 0,
     position |-> Time(0, ZeroTimeBase), encoded |-> <<>>, progress |-> <<>>,
     panicked_in |-> "none", finish_calls |-> 0]

\* the renderer thread and with it the process are alive
Running == loop \notin {"exit", "crashed"}

\* the pcs of an export thread inside export_video
Exporting == {"encoder_new", "render", "encode", "finish"}

\* one try_lock of the tuple of mod.rs 113-117 by export thread t
ExportTryLock(t, mutex, next) ==
    /\ held' = Acquire({mutex}, t)
    /\ exporter' = [exporter EXCEPT
           ![t].pc = next,
           ![t].ok = @ /\ try_lock(mutex) = "Ok",
           ![t].blocked_by = @ \cup Blockers({mutex})]
    /\ UNCHANGED <<frameVars, reply, loopVars, poisoned>>

\* mod.rs 114: renderers.image_renderer.try_lock()
ExportTryImageRenderer(t) ==
    /\ Running
    /\ exporter[t].pc = "try_image_renderer"
    /\ ExportTryLock(t, "image_renderer", "try_video_description")

\* mod.rs 115: video_description.try_lock()
ExportTryVideoDescription(t) ==
    /\ Running
    /\ exporter[t].pc = "try_video_description"
    /\ ExportTryLock(t, "video_description", "try_media_resources")

\* mod.rs 116 and 109-112: media_resources.try_lock(), then the if let on
\* the three results: export_video is entered when all are Ok, else the
\* guards are dropped and the thread ends
ExportTryMediaResources(t) ==
    /\ Running
    /\ exporter[t].pc = "try_media_resources"
    /\ LET all_ok == exporter[t].ok /\ try_lock("media_resources") = "Ok"
       IN /\ exporter' = [exporter EXCEPT
                 ![t].pc = IF all_ok THEN "encoder_new" ELSE "refused",
                 ![t].ok = all_ok,
                 ![t].blocked_by = @ \cup Blockers({"media_resources"})]
          /\ held' = IF all_ok THEN Acquire({"media_resources"}, t) ELSE Release(t)
    /\ UNCHANGED <<frameVars, reply, loopVars, poisoned>>

\* an .unwrap(), .expect(), index or panic! fails in export thread t: the
\* thread unwinds, its guards are dropped and poison their mutexes
ExportPanic(t) ==
    /\ exporter' = [exporter EXCEPT ![t].pc = "panicked",
                                    ![t].panicked_in = exporter[t].pc]
    /\ held' = Release(t)
    /\ poisoned' = PoisonedBy(t)

\* a progress callback that emits nothing
on_frame_complete_silent(events, frame_index) == events

\* mod.rs 123-125, the closure handed to export_video:
\* app_handle.emit_all("encoded-frame", frame)
on_frame_complete(events, frame_index) ==
    Append(events, [event |-> "encoded-frame", payload |-> frame_index])

\* an export that never calls encoder.finish()
finish_skipped(calls) == calls

\* video.rs 77: one call of encoder.finish()
finish(calls) == calls + 1

\* video.rs 54-60: duration, position, Encoder::new(..).unwrap()
ExportEncoderNew(t) ==
    /\ Running
    /\ exporter[t].pc = "encoder_new"
    /\ \E created \in BOOLEAN :
           IF created
           THEN /\ exporter' = [exporter EXCEPT
                       ![t].pc = "render",
                       ![t].position = Time(0, ZeroTimeBase)]
                /\ UNCHANGED lockVars
           ELSE ExportPanic(t)
    /\ UNCHANGED <<frameVars, reply, loopVars>>

\* video.rs 61-62: the next frame of the for loop, rendered by
\* image_renderer.render (which panics where RenderData::new does); after
\* the last frame the loop is left
ExportRender(t) ==
    /\ Running
    /\ exporter[t].pc = "render"
    /\ LET frames == video_description.frames
           frame_index == exporter[t].frame_index
       IN IF frame_index >= Len(frames)
          THEN /\ exporter' = [exporter EXCEPT ![t].pc = "finish"]
               /\ UNCHANGED lockVars
          ELSE IF ImageRendererRender(frames[frame_index + 1], media_resources,
                                      texture_pipeline_bind_groups).status = "panic"
          THEN ExportPanic(t)
          ELSE /\ exporter' = [exporter EXCEPT ![t].pc = "encode"]
               /\ UNCHANGED lockVars
    /\ UNCHANGED <<frameVars, reply, loopVars>>

\* video.rs 70-75: position advanced by one frame duration, the frame
\* stamped with position in the encoder's time base, encode_raw(..).unwrap(),
\* on_frame_complete(frame_index)
ExportEncode(t) ==
    /\ Running
    /\ exporter[t].pc = "encode"
    /\ LET frames == video_description.frames
           frame_index == exporter[t].frame_index
           duration == from_nth_of_a_second(video_description.fps)
           position == aligned_with_add(exporter[t].position, duration)
           pts == rescale(position.time, position.time_base, EncoderTimeBase)
           image == ImageRendererRender(frames[frame_index + 1], media_resources,
                                        texture_pipeline_bind_groups).image
       IN \E encoded \in BOOLEAN :
              IF encoded
              THEN /\ exporter' = [exporter EXCEPT
                          ![t].pc = "render",
                          ![t].position = position,
                          ![t].encoded = Append(@,
                              [frame_index |-> frame_index, pts |-> pts, image |-> image]),
                          ![t].progress = on_frame_complete(@, frame_index),
                          ![t].frame_index = frame_index + 1]
                   /\ UNCHANGED lockVars
              ELSE ExportPanic(t)
    /\ UNCHANGED <<frameVars, reply, loopVars>>

\* video.rs 77-78 and mod.rs 128: encoder.finish().unwrap(), export_video
\* returns, the guards are dropped and the thread ends
ExportFinish(t) ==
    /\ Running
    /\ exporter[t].pc = "finish"
    /\ \E finished \in BOOLEAN :
           IF finished
           THEN /\ exporter' = [exporter EXCEPT ![t].pc = "done",
                                               ![t].finish_calls = finish(@)]
                /\ held' = Release(t)
                /\ UNCHANGED poisoned
           ELSE /\ exporter' = [exporter EXCEPT ![t].pc = "panicked",
                                               ![t].panicked_in = "finish",
                                               ![t].finish_calls = finish(@)]
                /\ held' = Release(t)
                /\ poisoned' = PoisonedBy(t)
    /\ UNCHANGED <<frameVars, reply, loopVars>>

(***************************************************************************)
(* request_handlers.rs: the request handlers, each sending its signals.    *)
(***************************************************************************)
\* the export requests made so far: the threads spawned and the signals
\* still in the channel
ExportRequests ==
    Cardinality({t \in Threads : exporter[t].pc # "unspawned"})
        + Len(SelectSeq(chan, LAMBDA s : s.type = "ExportVideo"))

\* request_handlers.rs 16-23: send, its result returned
update_video_description ==
    /\ Running
    /\ Len(chan) < MaxChan
    /\ \E description \in Videos :
           chan' = Append(chan, UpdateVideoDescription(description))
    /\ reply' = "Ok"
    /\ UNCHANGED <<frameVars, lockVars, exporter, loop, video_description,
                   media_resources, texture_pipeline_bind_groups, reverse, playing,
                   frame, latest_image, redraw>>

\* a path of the res argument: its extension, and what the file system
\* holds there ("image": a file the decoder accepts, "absent": no file)
ResourcePath(ext, file) == [ext |-> ext, file |-> file]

\* request_handlers.rs 31
supported_image_types == {".png", ".bmp", ".jpg", ".jpeg", ".webp"}

\* request_handlers.rs 32-66: path_to_resource; the image (its width and
\* height) or an error
path_to_resource(path) ==
    IF path.ext = ".json"
    THEN IF path.file = "image"
         THEN [ok |-> TRUE, image |-> [w |-> 2, h |-> 1]]
         ELSE [ok |-> FALSE, image |-> "can't open"]
    ELSE IF path.ext \in supported_image_types
    THEN IF path.file = "image"
         THEN [ok |-> TRUE, image |-> [w |-> 2, h |-> 1]]
         ELSE [ok |-> FALSE, image |-> "can't open"]
    ELSE [ok |-> FALSE, image |-> "File extension not recognized"]

RECURSIVE CollectLoaded(_)
\* a collect that leaves out the resources that did not load
CollectLoaded(res) ==
    IF res = <<>> THEN [ok |-> TRUE, images |-> << >>]
    ELSE LET first == path_to_resource(res[1][2])
             rest == CollectLoaded(Tail(res))
         IN IF ~first.ok THEN rest
            ELSE [ok |-> TRUE,
                  images |-> [id \in {res[1][1]} \cup DOMAIN rest.images |->
                                 IF id \in DOMAIN rest.images THEN rest.images[id]
                                 ELSE first.image]]

RECURSIVE Collect(_)
\* request_handlers.rs 68-71: res mapped through path_to_resource and
\* collected into Result<HashMap<_, _>>: the first error, or every image
\* under its id (a later entry replaces an earlier one of the same id)
Collect(res) ==
    IF res = <<>> THEN [ok |-> TRUE, images |-> << >>]
    ELSE LET first == path_to_resource(res[1][2])
             rest == Collect(Tail(res))
         IN IF ~first.ok \/ ~rest.ok THEN [ok |-> FALSE, images |-> << >>]
            ELSE [ok |-> TRUE,
                  images |-> [id \in {res[1][1]} \cup DOMAIN rest.images |->
                                 IF id \in DOMAIN rest.images THEN rest.images[id]
                                 ELSE first.image]]

\* the paths the model draws: an image, a missing file, a file that is
\* not an image
ResourcePaths ==
    {ResourcePath(".png", "image"), ResourcePath(".png", "absent"),
     ResourcePath(".txt", "image")}

\* the res arguments the model draws: image 1, or images 1 and 2
MediaRequests ==
    {<<<<1, path>>>> : path \in ResourcePaths}
    \cup {<<<<1, first>>, <<2, second>>>> : first \in ResourcePaths,
                                            second \in ResourcePaths}

\* the res arguments all of whose files load
LoadableRequests == {res \in MediaRequests : Collect(res).ok}

\* request_handlers.rs 26-87: images? returns the error before anything is
\* sent; else UpdateMediaResources, then
\* SetPlayback { playing: false, reverse: false, frame: Some(At(0)) }
update_media_resources(res) ==
    /\ Running
    /\ LET images == Collect(res)
           sent == IF images.ok
                   THEN <<UpdateMediaResources(images.images),
                          SetPlayback(Playback(FALSE, FALSE, At(0)))>>
                   ELSE <<>>
       IN /\ Len(chan) + Len(sent) <= MaxChan
          /\ chan' = chan \o sent
          /\ reply' = IF images.ok THEN "Ok" ELSE "Err"
    /\ UNCHANGED <<frameVars, lockVars, exporter, loop, video_description,
                   media_resources, texture_pipeline_bind_groups, reverse, playing,
                   frame, latest_image, redraw>>

\* request_handlers.rs 89-132: play, pause, stop, next_frame, prev_frame, reverse
playback ==
    /\ Running
    /\ Len(chan) < MaxChan
    /\ \E p \in Playbacks : chan' = Append(chan, SetPlayback(p))
    /\ reply' = "Ok"
    /\ UNCHANGED <<frameVars, lockVars, exporter, loop, video_description,
                   media_resources, texture_pipeline_bind_groups, reverse, playing,
                   frame, latest_image, redraw>>

\* request_handlers.rs 134-143
export ==
    /\ Running
    /\ Len(chan) < MaxChan
    /\ ExportRequests < MaxExports
    /\ chan' = Append(chan, ExportVideo)
    /\ reply' = "Ok"
    /\ UNCHANGED <<frameVars, lockVars, exporter, loop, video_description,
                   media_resources, texture_pipeline_bind_groups, reverse, playing,
                   frame, latest_image, redraw>>

(***************************************************************************)
(* renderer/mod.rs: run.                                                   *)
(***************************************************************************)
\* wgpu: what presenting to the surface returns
SurfaceResults == {"Ok", "Lost", "Outdated", "Timeout", "OutOfMemory"}

\* a RedrawRequested that has not reached the window renderer
NoRedraw ==
    [outcome |-> "none", image |-> NoImage, blocked_by |-> {}, poison |-> FALSE,
     surface |-> "Ok", reconfigured |-> FALSE, logged |-> FALSE]

\* mod.rs 221-225: Lost and Outdated reconfigure the surface:
\* window_renderer.resize(window_renderer.size()), which calls
\* surface.configure (renderers.rs 279-286; the size of an existing window
\* renderer is positive)
SurfaceReconfigured(surface) == surface \in {"Lost", "Outdated"}

\* mod.rs 230-233: Timeout prints "surface timeout"
SurfaceLogged(surface) == surface = "Timeout"

\* a match that gives up on a lost surface as well
AfterSurfaceLostExits(surface) ==
    IF surface \in {"OutOfMemory", "Lost"} THEN "exit" ELSE "events"

\* mod.rs 218-234: the match on the surface result leaves the event loop
\* on OutOfMemory only
AfterSurface(surface) == IF surface = "OutOfMemory" THEN "exit" ELSE "events"

\* a startup wait that installs a video description it receives
StartupRecvApplying ==
    /\ loop = "wait"
    /\ chan # <<>>
    /\ chan' = Tail(chan)
    /\ IF Head(chan).type = "UpdateMediaResources"
       THEN /\ media_resources' = Head(chan).resources
            /\ texture_pipeline_bind_groups' = texture_pipeline(Head(chan).resources)
            /\ loop' = "events"
       ELSE UNCHANGED <<media_resources, texture_pipeline_bind_groups, loop>>
    /\ video_description' = IF Head(chan).type = "UpdateVideoDescription"
                            THEN Head(chan).video ELSE video_description
    /\ UNCHANGED <<frameVars, reply, lockVars, exporter, reverse, playing,
                   frame, latest_image, redraw>>

\* mod.rs 39-60: a signal received before the window exists; the first
\* UpdateMediaResources ends the wait, every other signal is discarded.
\* Renderers::new builds the bind groups from the images.
StartupRecv ==
    /\ loop = "wait"
    /\ chan # <<>>
    /\ chan' = Tail(chan)
    /\ IF Head(chan).type = "UpdateMediaResources"
       THEN /\ media_resources' = Head(chan).resources
            /\ texture_pipeline_bind_groups' = texture_pipeline(Head(chan).resources)
            /\ loop' = "events"
       ELSE UNCHANGED <<media_resources, texture_pipeline_bind_groups, loop>>
    /\ UNCHANGED <<frameVars, reply, lockVars, exporter, video_description, reverse, playing,
                   frame, latest_image, redraw>>

\* mod.rs 236-244 and 94-100: Event::RedrawEventsCleared requests the
\* redraw and Event::RedrawRequested for the window begins it, each behind
\* a blocking window_renderer.lock()
RedrawRequested ==
    /\ loop = "events"
    /\ lock("window_renderer")
    /\ loop' = "drain"
    /\ redraw' = NoRedraw
    /\ UNCHANGED <<frameVars, reply, lockVars, exporter, chan, video_description,
                   media_resources, texture_pipeline_bind_groups, reverse, playing,
                   frame, latest_image>>

\* a channel that hands out the newest signal first
try_recv_newest(queue) ==
    [signal |-> queue[Len(queue)], rest |-> SubSeq(queue, 1, Len(queue) - 1)]

\* mod.rs 102: signal_rx.try_recv() on a channel that is not empty: the
\* oldest signal, and what stays in the channel
try_recv(queue) == [signal |-> Head(queue), rest |-> Tail(queue)]

\* mod.rs 102-130: Signal::ExportVideo spawns an export thread
DrainExportVideo ==
    /\ loop = "drain"
    /\ chan # <<>> /\ try_recv(chan).signal.type = "ExportVideo"
    /\ chan' = try_recv(chan).rest
    /\ LET t == CHOOSE t \in Threads :
                    /\ exporter[t].pc = "unspawned"
                    /\ \A u \in Threads : u < t => exporter[u].pc # "unspawned"
       IN exporter' = [exporter EXCEPT ![t].pc = "try_image_renderer"]
    /\ UNCHANGED <<frameVars, reply, lockVars, loop, video_description, media_resources,
                   texture_pipeline_bind_groups, reverse, playing, frame,
                   latest_image, redraw>>

\* mod.rs 136-142: the play head a SetFrame asks for
SetFrameTarget(set_frame) ==
    CASE set_frame.kind = "At" -> set_frame.n
      [] set_frame.kind = "Forward" ->
             IF frame + set_frame.n <= Len(video_description.frames)
             THEN frame + set_frame.n ELSE Len(video_description.frames)
      [] set_frame.kind = "Back" ->
             IF frame >= set_frame.n THEN frame - set_frame.n ELSE 0

\* mod.rs 131-145: Signal::SetPlayback; the play head moves only when
\* video_description.try_lock() is Ok
DrainSetPlayback ==
    /\ loop = "drain"
    /\ chan # <<>> /\ try_recv(chan).signal.type = "SetPlayback"
    /\ chan' = try_recv(chan).rest
    /\ reverse' = try_recv(chan).signal.playback.reverse
    /\ playing' = try_recv(chan).signal.playback.playing
    /\ frame' = IF /\ try_recv(chan).signal.playback.frame.kind # "None"
                   /\ try_lock("video_description") = "Ok"
                THEN SetFrameTarget(try_recv(chan).signal.playback.frame)
                ELSE frame
    /\ UNCHANGED <<frameVars, reply, lockVars, exporter, loop, video_description,
                   media_resources, texture_pipeline_bind_groups, latest_image,
                   redraw>>

\* mod.rs 146-150: Signal::UpdateVideoDescription; the signal is consumed
\* and the description replaced only when try_lock() is Ok
DrainUpdateVideoDescription ==
    /\ loop = "drain"
    /\ chan # <<>> /\ try_recv(chan).signal.type = "UpdateVideoDescription"
    /\ chan' = try_recv(chan).rest
    /\ video_description' = IF try_lock("video_description") = "Ok"
                            THEN try_recv(chan).signal.video
                            ELSE video_description
    /\ UNCHANGED <<frameVars, reply, lockVars, exporter, loop, media_resources,
                   texture_pipeline_bind_groups, reverse, playing, frame,
                   latest_image, redraw>>

\* mod.rs 151-159: Signal::UpdateMediaResources; the signal is consumed, and
\* the resources installed and refresh_texture_pipeline called only when
\* both try_lock() are Ok
DrainUpdateMediaResources ==
    /\ loop = "drain"
    /\ chan # <<>> /\ try_recv(chan).signal.type = "UpdateMediaResources"
    /\ chan' = try_recv(chan).rest
    /\ IF try_lock("image_renderer") = "Ok" /\ try_lock("media_resources") = "Ok"
       THEN /\ media_resources' = try_recv(chan).signal.resources
            /\ texture_pipeline_bind_groups' = texture_pipeline(try_recv(chan).signal.resources)
       ELSE UNCHANGED <<media_resources, texture_pipeline_bind_groups>>
    /\ UNCHANGED <<frameVars, reply, lockVars, exporter, loop, video_description, reverse,
                   playing, frame, latest_image, redraw>>

\* a play head that wraps around at either end instead of halting
AdvancePlayHeadWrap(len, tick) ==
    [playing |-> playing,
     frame |-> IF playing /\ tick
               THEN (IF reverse THEN (frame + len - 1) % len ELSE (frame + 1) % len)
               ELSE frame]

\* mod.rs 171-188: the play head after a frame was handed to
\* Renderers::render; tick: a frame time has passed since last_frame_update
AdvancePlayHead(len, tick) ==
    LET at_end == frame >= len - 1 /\ ~reverse
        clamped == IF at_end THEN len - 1 ELSE frame
        still_playing == playing /\ ~at_end /\ ~(clamped = 0 /\ reverse)
    IN [playing |-> still_playing,
        frame |-> IF still_playing /\ tick
                  THEN (IF reverse THEN clamped - 1 ELSE clamped + 1)
                  ELSE clamped]

\* a fallback that always presents the all-zero image
FallbackBlack == black

\* mod.rs 207-214: the image presented when a lock was not acquired
FallbackImage == IF latest_image = NoImage THEN black ELSE latest_image[1]

\* mod.rs 205-234: Err(RendererLockError): the fallback image is handed to
\* the window renderer, and the surface result matched
Fallback(mutexes) ==
    \E surface \in SurfaceResults :
        /\ redraw' = [outcome |-> "fallback", image |-> Some(FallbackImage),
                      blocked_by |-> Blockers(mutexes),
                      poison |-> \E m \in mutexes : try_lock(m) = "Poisoned",
                      surface |-> surface,
                      reconfigured |-> SurfaceReconfigured(surface),
                      logged |-> SurfaceLogged(surface)]
        /\ loop' = AfterSurface(surface)
        /\ UNCHANGED latest_image

\* mod.rs 163-170 and renderers.rs 56-69, the channel being empty: the
\* try_lock of the video description and the media resources, the index
\* frames[frame], the try_lock of the two renderers inside
\* Renderers::render. With all of them the frame is being rendered; without
\* one the redraw ends in the fallback.
RenderBegin ==
    /\ loop = "drain"
    /\ chan = <<>>
    /\ LET state == {"video_description", "media_resources"}
           renderers == {"image_renderer", "window_renderer"}
       IN IF \E m \in state : try_lock(m) # "Ok"
          THEN /\ Fallback(state)
               /\ UNCHANGED <<frame, playing, lockVars>>
          ELSE IF frame >= Len(video_description.frames)
          THEN /\ loop' = "crashed"
               /\ redraw' = [NoRedraw EXCEPT !.outcome = "panic"]
               /\ poisoned' = poisoned \cup state
               /\ UNCHANGED <<frame, playing, held, latest_image>>
          ELSE IF \E m \in renderers : try_lock(m) # "Ok"
          THEN /\ Fallback(renderers)
               /\ \E tick \in BOOLEAN :
                      LET next == AdvancePlayHead(Len(video_description.frames), tick)
                      IN frame' = next.frame /\ playing' = next.playing
               /\ UNCHANGED lockVars
          ELSE /\ held' = Acquire(state \cup renderers, Main)
               /\ loop' = "rendering"
               /\ UNCHANGED <<frame, playing, poisoned, latest_image, redraw>>
    /\ UNCHANGED <<frameVars, reply, exporter, chan, video_description, media_resources,
                   texture_pipeline_bind_groups, reverse>>

\* renderers.rs 70-74 and mod.rs 171-234: the frame under the play head is
\* rendered (a panic of RenderData::new ends the thread) and handed to the
\* window renderer, the play head advances, the guards are dropped, and the
\* result is matched: an image that reached the surface is the latest image
RenderEnd ==
    /\ loop = "rendering"
    /\ LET frames == video_description.frames
           rendered == ImageRendererRender(frames[frame + 1], media_resources,
                                           texture_pipeline_bind_groups)
       IN IF rendered.status = "panic"
          THEN /\ loop' = "crashed"
               /\ redraw' = [NoRedraw EXCEPT !.outcome = "panic"]
               /\ poisoned' = PoisonedBy(Main)
               /\ held' = Release(Main)
               /\ UNCHANGED <<frame, playing, latest_image>>
          ELSE \E surface \in SurfaceResults, tick \in BOOLEAN :
                   /\ latest_image' = IF surface = "Ok" THEN Some(rendered.image)
                                      ELSE latest_image
                   /\ frame' = AdvancePlayHead(Len(frames), tick).frame
                   /\ playing' = AdvancePlayHead(Len(frames), tick).playing
                   /\ redraw' = [outcome |-> IF surface = "Ok" THEN "rendered"
                                             ELSE "surface_error",
                                 image |-> Some(rendered.image),
                                 blocked_by |-> {}, poison |-> FALSE,
                                 surface |-> surface,
                                 reconfigured |-> SurfaceReconfigured(surface),
                                 logged |-> SurfaceLogged(surface)]
                   /\ loop' = AfterSurface(surface)
                   /\ held' = Release(Main)
                   /\ UNCHANGED poisoned
    /\ UNCHANGED <<frameVars, reply, exporter, chan, video_description, media_resources,
                   texture_pipeline_bind_groups, reverse>>

(***************************************************************************)
(* The frame pipeline on its own: the caller builds a FrameDescription,    *)
(* then RenderData::new is called once on it.                              *)
(***************************************************************************)
InitFrame ==
    /\ scene = FrameDescription(<<>>)
    /\ registry = Registry({})
    /\ stage = "scene"
    /\ discovered = <<>>
    /\ objects = <<>>
    /\ render_data = NoRenderData

\* the caller adds a root node to the frame
AddRoot ==
    /\ stage = "scene"
    /\ Size(scene.things) < MaxSize
    /\ \E z \in Depths, t \in Transforms, v \in BOOLEAN :
           scene' = [scene EXCEPT !.things = Append(@, Node(z, t, v, <<>>))]
    /\ UNCHANGED <<registry, stage, discovered, objects, render_data>>
    /\ UNCHANGED <<loopVars, lockVars, exporter, reply>>

\* the caller adds a child (node or leaf) under a node of the frame
AddChild ==
    /\ stage = "scene"
    /\ Size(scene.things) < MaxSize
    /\ \E d \in 1..RightDepth(scene.things) :
       \E c \in {Leaf(o) : o \in Objects}
                \cup {Node(z, t, v, <<>>) : z \in Depths, t \in Transforms, v \in BOOLEAN} :
           scene' = [scene EXCEPT !.things = AppendAt(@, d, c)]
    /\ UNCHANGED <<registry, stage, discovered, objects, render_data>>
    /\ UNCHANGED <<loopVars, lockVars, exporter, reply>>

\* one call of RenderData::new on the frame, with the bind groups of the
\* registry (Renderers::new and refresh_texture_pipeline build them from it):
\* RenderDataNew, with the locals of frame_description_to_objects kept
RenderDataNewCall ==
    /\ stage = "scene"
    /\ stage' = "compiled"
    /\ registry' \in Registries
    /\ discovered' = TraverseFrame(scene)
    /\ objects' = DropZ(sort_by(discovered'))
    /\ render_data' =
           CompileLoop(objects', CompileStart, registry', texture_pipeline(registry'))
    /\ UNCHANGED scene
    /\ UNCHANGED <<loopVars, lockVars, exporter, reply>>

NextFrame == AddRoot \/ AddChild \/ RenderDataNewCall

(***************************************************************************)
(* The renderer thread with its export threads, under requests to update   *)
(* the video and the media resources and to export.                        *)
(***************************************************************************)
\* mod.rs 34-72: run is entered, nothing received yet
InitRun ==
    /\ chan = <<>>
    /\ loop = "wait"
    /\ video_description = InitialVideoDescription
    /\ media_resources = Registry({})
    /\ texture_pipeline_bind_groups = {}
    /\ reverse = FALSE
    /\ playing = TRUE
    /\ frame = 0
    /\ latest_image = NoImage
    /\ redraw = NoRedraw
    /\ held = [m \in Mutexes |-> {}]
    /\ poisoned = {}
    /\ exporter = [t \in Threads |-> NoExport]
    /\ reply = "none"

Init == InitFrame /\ InitRun

ExportThread(t) ==
    \/ ExportTryImageRenderer(t)
    \/ ExportTryVideoDescription(t)
    \/ ExportTryMediaResources(t)
    \/ ExportEncoderNew(t)
    \/ ExportRender(t)
    \/ ExportEncode(t)
    \/ ExportFinish(t)

Next ==
    \/ update_video_description
    \/ \E res \in LoadableRequests : update_media_resources(res)
    \/ export
    \/ StartupRecv
    \/ RedrawRequested
    \/ DrainExportVideo
    \/ DrainSetPlayback
    \/ DrainUpdateVideoDescription
    \/ DrainUpdateMediaResources
    \/ RenderBegin
    \/ RenderEnd
    \/ \E t \in Threads : ExportThread(t)

Spec == Init /\ [][Next]_vars

\* the frame pipeline on its own, run not yet receiving
SpecFrame == Init /\ [][NextFrame]_vars

(***************************************************************************)
(* export_video on its own: an export thread that holds the three guards   *)
(* is about to enter export_video, on any video of at most MaxFrames       *)
(* frames; no other thread runs.                                           *)
(***************************************************************************)
\* the frames of an exported video: an image, an image only the larger
\* registry has, a path that does not tessellate, an image over a red
\* background (settings.bg given, not defaulted)
ExportFrames ==
    {FrameOf(Img(1)), FrameOf(Img(2)), FrameOf(Bezier("err")),
     [FrameOf(Img(1)) EXCEPT !.settings.bg = <<255, 0, 0>>]}

ExportVideos ==
    {VideoDescription(frames, fps) :
        frames \in UNION {[1..n -> ExportFrames] : n \in 0..MaxFrames},
        fps \in FpsValues}

InitExport ==
    /\ InitFrame
    /\ chan = <<>>
    /\ loop = "events"
    /\ video_description \in ExportVideos
    /\ media_resources \in Registries
    /\ texture_pipeline_bind_groups = texture_pipeline(media_resources)
    /\ reverse = FALSE
    /\ playing = TRUE
    /\ frame = 0
    /\ latest_image = NoImage
    /\ redraw = NoRedraw
    /\ held = [m \in Mutexes |-> IF m = "window_renderer" THEN {} ELSE {1}]
    /\ poisoned = {}
    /\ exporter = [t \in Threads |->
                      IF t = 1 THEN [NoExport EXCEPT !.pc = "encoder_new"] ELSE NoExport]
    /\ reply = "none"

NextExport ==
    \E t \in Threads :
        \/ ExportEncoderNew(t)
        \/ ExportRender(t)
        \/ ExportEncode(t)
        \/ ExportFinish(t)

SpecExport == InitExport /\ [][NextExport]_vars

(***************************************************************************)
(* The renderer thread under playback requests, without exports.           *)
(***************************************************************************)
NextPlayback ==
    \/ update_video_description
    \/ \E res \in LoadableRequests : update_media_resources(res)
    \/ playback
    \/ StartupRecv
    \/ RedrawRequested
    \/ DrainSetPlayback
    \/ DrainUpdateVideoDescription
    \/ DrainUpdateMediaResources
    \/ RenderBegin
    \/ RenderEnd

SpecPlayback == Init /\ [][NextPlayback]_vars

(***************************************************************************)
(* Playback during an export: an export thread has just taken its three    *)
(* guards and is about to enter export_video on a video of two frames,     *)
(* while the renderer thread handles redraws and playback commands.        *)
(***************************************************************************)
\* the video that is exported and previewed
BusyVideo == VideoDescription(<<FrameOf(Img(1)), FrameOf(Img(2))>>, 16)

InitBusy ==
    /\ InitFrame
    /\ chan = <<>>
    /\ loop = "events"
    /\ video_description = BusyVideo
    /\ media_resources = Registry({1, 2})
    /\ texture_pipeline_bind_groups = texture_pipeline(media_resources)
    /\ reverse \in BOOLEAN
    /\ playing \in BOOLEAN
    /\ frame \in {0, 1}
    /\ latest_image = NoImage
    /\ redraw = NoRedraw
    /\ held = [m \in Mutexes |-> IF m = "window_renderer" THEN {} ELSE {1}]
    /\ poisoned = {}
    /\ exporter = [t \in Threads |->
                      IF t = 1 THEN [NoExport EXCEPT !.pc = "encoder_new"] ELSE NoExport]
    /\ reply = "Ok"

NextBusy ==
    \/ playback
    \/ RedrawRequested
    \/ DrainSetPlayback
    \/ RenderBegin
    \/ RenderEnd
    \/ \E t \in Threads :
           \/ ExportEncoderNew(t)
           \/ ExportRender(t)
           \/ ExportEncode(t)
           \/ ExportFinish(t)

SpecBusy == InitBusy /\ [][NextBusy]_vars

(***************************************************************************)
(* The commands on their own: the UI invokes commands, with resources that *)
(* load and resources that do not, while run waits for its first media     *)
(* resources.                                                              *)
(***************************************************************************)
NextCommands ==
    \/ update_video_description
    \/ \E res \in MediaRequests : update_media_resources(res)
    \/ playback
    \/ export
    \/ StartupRecv

SpecCommands == Init /\ [][NextCommands]_vars

(***************************************************************************)
(* The transforms on their own: the caller nests up to MaxNest nodes, each *)
(* under the one before with a local transform of its own, puts a leaf     *)
(* into the innermost, then RenderData::new is called once on the frame.   *)
(***************************************************************************)
\* the deepest chain of nodes the transform runs build
MaxNest == 3

\* the local transforms the nodes are given: a displacement or none, a
\* non-uniform scale or none, a rotation by a multiple of 90 degrees
TransformValues ==
    {Transform(pos, scale, angle) :
        pos \in {Point(0, 0), Point(1, 2)},
        scale \in {Point(1, 1), Point(2, 3)},
        angle \in {0, 90, 180}}

\* the frame is a chain of nodes, no leaf in it yet
IsChain(things) == Size(things) = RightDepth(things)

\* the caller nests a node with local transform t under the innermost node
\* (the first one becomes the root)
NestNode ==
    /\ stage = "scene"
    /\ IsChain(scene.things)
    /\ RightDepth(scene.things) < MaxNest
    /\ \E t \in TransformValues :
           scene' = [scene EXCEPT
                        !.things = AppendAt(@, RightDepth(@), Node(0, t, TRUE, <<>>))]
    /\ UNCHANGED <<registry, stage, discovered, objects, render_data>>
    /\ UNCHANGED <<loopVars, lockVars, exporter, reply>>

\* the caller puts a leaf into the innermost node
NestLeaf ==
    /\ stage = "scene"
    /\ IsChain(scene.things)
    /\ RightDepth(scene.things) >= 1
    /\ \E o \in {Img(1), Bezier("ok")} :
           scene' = [scene EXCEPT
                        !.things = AppendAt(@, RightDepth(@), Leaf(o))]
    /\ UNCHANGED <<registry, stage, discovered, objects, render_data>>
    /\ UNCHANGED <<loopVars, lockVars, exporter, reply>>

NextTransform == NestNode \/ NestLeaf \/ RenderDataNewCall

SpecTransform == Init /\ [][NextTransform]_vars

(***************************************************************************)
(* The accumulation on its own: the caller builds a forest of at most      *)
(* MaxTree containers whose nodes are all visible and carry a depth and a  *)
(* local transform that is not the identity, its leaves all alike; then    *)
(* RenderData::new is called once on the frame.                            *)
(***************************************************************************)
\* the largest forest of the accumulation runs
MaxTree == 4

\* two local transforms that do not commute
TreeTransforms ==
    {Transform(Point(1, 0), Point(2, 1), 90), Transform(Point(0, 2), Point(1, 3), 0)}

\* the nodes the caller adds
TreeNodes == {Node(z, t, TRUE, <<>>) : z \in Depths, t \in TreeTransforms}

\* the caller adds a root node to the forest
GrowRoot ==
    /\ stage = "scene"
    /\ Size(scene.things) < MaxTree
    /\ \E n \in TreeNodes : scene' = [scene EXCEPT !.things = Append(@, n)]
    /\ UNCHANGED <<registry, stage, discovered, objects, render_data>>
    /\ UNCHANGED <<loopVars, lockVars, exporter, reply>>

\* the caller adds a node or a leaf under a node of the rightmost path
GrowChild ==
    /\ stage = "scene"
    /\ Size(scene.things) < MaxTree
    /\ \E d \in 1..RightDepth(scene.things) :
       \E c \in {Leaf(Bezier("ok"))} \cup TreeNodes :
           scene' = [scene EXCEPT !.things = AppendAt(@, d, c)]
    /\ UNCHANGED <<registry, stage, discovered, objects, render_data>>
    /\ UNCHANGED <<loopVars, lockVars, exporter, reply>>

NextTree == GrowRoot \/ GrowChild \/ RenderDataNewCall

SpecTree == Init /\ [][NextTree]_vars

(***************************************************************************)
(* RenderData::new on one primitive: the caller places a single leaf under *)
(* a single node, with the thickness, colour, control points or subrect    *)
(* the leaf is to have, and RenderData::new compiles it.                   *)
(***************************************************************************)
\* the local transforms of the node
PrimitiveTransforms ==
    TransformValues \cup {Transform(Point(0, 0), Point(2, 2), 0)}

\* the control points a placed Bezier may have (the sums of neighbours are
\* even, so that mid is exact)
PrimitivePoints ==
    {DefaultPoints, <<Point(1, 1), Point(3, 1), Point(1, 3)>>}

\* the subrects a placed Img may have
PrimitiveSubrects ==
    {NoSubrect, SomeSubrect(Rect(0, 0, 1, 1)), SomeSubrect(Rect(1, 1, 2, 2))}

\* the leaves the caller may place: images, strokes of varied geometry and
\* strokes of every value of a colour channel
Primitives ==
    {ImgOf(1, subrect) : subrect \in PrimitiveSubrects}
    \cup {BezierOf("ok", thickness, Color(0, 0, 0), points) :
              thickness \in {1, 2}, points \in PrimitivePoints}
    \cup {BezierOf("ok", 1, Color(c, 255 - c, 128), DefaultPoints) : c \in 0..255}

\* the caller describes a frame of one node over one primitive
PlacePrimitive ==
    /\ stage = "scene"
    /\ scene.things = <<>>
    /\ \E t \in PrimitiveTransforms, o \in Primitives :
           scene' = [scene EXCEPT !.things = <<Node(0, t, TRUE, <<Leaf(o)>>)>>]
    /\ UNCHANGED <<registry, stage, discovered, objects, render_data>>
    /\ UNCHANGED <<loopVars, lockVars, exporter, reply>>

NextPrimitive == PlacePrimitive \/ RenderDataNewCall

SpecPrimitive == Init /\ [][NextPrimitive]_vars

(***************************************************************************)
(* What the claims about the frame pipeline speak of, read off the frame   *)
(* itself and not off the traversal.                                       *)
(***************************************************************************)
RECURSIVE LeafPaths(_, _)
\* the paths of the leaves below children, whose parent has path prefix
LeafPaths(children, prefix) ==
    UNION {LET c == children[i]
               p == Append(prefix, i)
           IN IF c.tag = "Leaf" THEN {p} ELSE LeafPaths(c.children, p)
           : i \in 1..Len(children)}

RECURSIVE ContainerAt(_, _)
\* the container a path addresses
ContainerAt(children, path) ==
    IF Len(path) = 1 THEN children[path[1]]
    ELSE ContainerAt(children[path[1]].children, Tail(path))

\* the k-th ancestor node of the leaf at path, the root being the first
AncestorOf(things, path, k) == ContainerAt(things, SubSeq(path, 1, k))

RECURSIVE DepthTo(_, _, _)
\* the sum of z over the first k ancestors of the leaf at path
DepthTo(things, path, k) ==
    IF k = 0 THEN 0 ELSE DepthTo(things, path, k - 1) + AncestorOf(things, path, k).z

\* the combined depth of the leaf at path: the z of all its ancestors
CombinedDepth(things, path) == DepthTo(things, path, Len(path) - 1)

\* no ancestor of the leaf at path is invisible
AllAncestorsVisible(things, path) ==
    \A k \in 1..(Len(path) - 1) : AncestorOf(things, path, k).visible

\* where the traversal discovered the leaf at path
DiscoveryIndex(path) == CHOOSE k \in 1..Len(discovered) : discovered[k].path = path

\* the frame's flattened list holds a primitive of this kind
Emitted(kind) == \E i \in 1..Len(objects) : objects[i].object.kind = kind

\* the flattened list holds an image whose id the registry lacks
MissingImageAt(i) ==
    /\ objects[i].object.kind = "Img"
    /\ objects[i].object.id \notin DOMAIN registry

(***************************************************************************)
(* C1: the flattened list is non-decreasing in combined depth, and leaves  *)
(* of equal combined depth keep the order in which the traversal           *)
(* discovered them; the sort neither drops nor adds a leaf.                *)
(***************************************************************************)
C1_DepthOrderStable ==
    stage = "compiled" =>
        /\ Len(objects) = Len(discovered)
        /\ \A k \in 1..Len(discovered) :
               \E i \in 1..Len(objects) : objects[i].path = discovered[k].path
        /\ \A i, j \in 1..Len(objects) :
               i < j =>
                   LET di == CombinedDepth(scene.things, objects[i].path)
                       dj == CombinedDepth(scene.things, objects[j].path)
                   IN /\ di <= dj
                      /\ di = dj =>
                             DiscoveryIndex(objects[i].path) < DiscoveryIndex(objects[j].path)

\* a frame whose leaves were discovered out of depth order: the sort moved
\* a deeper leaf behind one discovered after it
C1_Witness ==
    /\ stage = "compiled"
    /\ \E i, j \in 1..Len(objects) :
           /\ i < j
           /\ CombinedDepth(scene.things, objects[i].path)
                  < CombinedDepth(scene.things, objects[j].path)
           /\ DiscoveryIndex(objects[i].path) > DiscoveryIndex(objects[j].path)

(***************************************************************************)
(* C2: a leaf with an invisible node anywhere among its ancestors is never *)
(* in the flattened list, and a leaf whose ancestors are all visible is in *)
(* it exactly once; nothing else is in the list.                           *)
(***************************************************************************)
C2_VisibilityPruning ==
    stage = "compiled" =>
        /\ \A p \in LeafPaths(scene.things, <<>>) :
               Cardinality({i \in 1..Len(objects) : objects[i].path = p})
                   = IF AllAncestorsVisible(scene.things, p) THEN 1 ELSE 0
        /\ \A i \in 1..Len(objects) :
               /\ objects[i].path \in LeafPaths(scene.things, <<>>)
               /\ objects[i].object = ContainerAt(scene.things, objects[i].path).object

\* a leaf under a visible node that is itself under an invisible node, left out
C2_Witness ==
    /\ stage = "compiled"
    /\ \E p \in LeafPaths(scene.things, <<>>) :
           /\ Len(p) >= 3
           /\ AncestorOf(scene.things, p, Len(p) - 1).visible
           /\ ~AncestorOf(scene.things, p, 1).visible
           /\ \A i \in 1..Len(objects) : objects[i].path # p

IsExporting(t) == exporter[t].pc \in Exporting

\* the k-th frame export thread t handed to the encoder
EncodedFrame(t, k) == exporter[t].encoded[k]

\* the distance between a and b
Distance(a, b) == IF a >= b THEN a - b ELSE b - a

(***************************************************************************)
(* C3 as stated: every frame K handed to the encoder has presentation      *)
(* timestamp K/F, F the fps of the video, within one unit of the encoder's *)
(* time base; so frame 0 is stamped 0 (or one unit).                       *)
(***************************************************************************)
C3_FrameCadence ==
    \A t \in Threads : \A k \in 1..Len(exporter[t].encoded) :
        Distance(EncodedFrame(t, k).pts * video_description.fps,
                 EncodedFrame(t, k).frame_index * EncoderTimeBase)
            <= video_description.fps

(***************************************************************************)
(* C4: the frames an export hands to the encoder are frame 0, 1, 2, .. in  *)
(* this order, each the rendering of its own frame description, none       *)
(* twice; an export that completes has handed over every frame of the      *)
(* video; the timestamps handed over strictly increase.                    *)
(***************************************************************************)
C4_AscendingOnce ==
    \A t \in Threads :
        /\ Len(exporter[t].encoded) <= Len(video_description.frames)
        /\ \A k \in 1..Len(exporter[t].encoded) :
               /\ EncodedFrame(t, k).frame_index = k - 1
               /\ EncodedFrame(t, k).image =
                      ImageRendererRender(video_description.frames[k], media_resources,
                                          texture_pipeline_bind_groups).image
               /\ k > 1 => EncodedFrame(t, k - 1).pts < EncodedFrame(t, k).pts
        /\ exporter[t].pc = "done" =>
               Len(exporter[t].encoded) = Len(video_description.frames)

\* an export of three frames that completed
C4_Witness ==
    /\ exporter[1].pc = "done"
    /\ Len(exporter[1].encoded) >= 3
    /\ Len(exporter[1].encoded) = Len(video_description.frames)

(***************************************************************************)
(* C5 as stated: after an export ended in a failure, with a frame under    *)
(* the play head, a redraw falls back to the stale or black image only     *)
(* when an export thread holds one of the locks it tried; with none held   *)
(* it acquires them and renders the frame under the play head.             *)
(***************************************************************************)
C5_PreviewSurvivesExportFailure ==
    (/\ \E t \in Threads : exporter[t].pc = "panicked"
     /\ frame < Len(video_description.frames)
     /\ redraw.outcome = "fallback")
        => redraw.blocked_by # {}

(***************************************************************************)
(* C6 as stated: while an export is inside export_video, an                *)
(* UpdateMediaResources signal leaves the channel only by being applied:   *)
(* the new resources installed and the texture pipeline refreshed from     *)
(* them. (A signal that stays in the channel is pending.)                  *)
(***************************************************************************)
C6_RefreshNotLost ==
    [][(/\ \E t \in Threads : IsExporting(t)
        /\ chan # <<>>
        /\ Head(chan).type = "UpdateMediaResources"
        /\ chan' = Tail(chan))
       => /\ media_resources' = Head(chan).resources
          /\ texture_pipeline_bind_groups' = texture_pipeline(Head(chan).resources)]_vars

(***************************************************************************)
(* C7: the redraw never waits for a lock: once the channel is drained the  *)
(* render step can always be taken; and a redraw that missed a lock ends   *)
(* in the same handler having handed the window the latest image, or the   *)
(* all-zero image when there is none; the renderer thread does not panic   *)
(* on it, and leaves the event loop only if the surface itself reported    *)
(* OutOfMemory for that image.                                             *)
(***************************************************************************)
C7_FallbackWithoutBlocking ==
    /\ (loop = "drain" /\ chan = <<>>) => ENABLED RenderBegin
    /\ redraw.outcome = "fallback" =>
           /\ redraw.image = Some(IF latest_image = NoImage THEN black
                                  ELSE latest_image[1])
           /\ loop \in {"events", "exit"}
           /\ loop = "exit" <=> redraw.surface = "OutOfMemory"

\* a redraw that fell back to a rendered image because an export thread
\* inside export_video held the lock, and went on
C7_Witness ==
    /\ redraw.outcome = "fallback"
    /\ latest_image # NoImage
    /\ redraw.image = latest_image
    /\ \E t \in redraw.blocked_by : IsExporting(t)
    /\ loop = "events"

(***************************************************************************)
(* C8: while an export thread is inside export_video it holds the guards   *)
(* of the image renderer, the video description and the media resources;   *)
(* the renderer thread is not rendering, no other export thread is inside  *)
(* export_video, and no step changes the video description, the media      *)
(* resources or the texture pipeline's bind groups.                        *)
(***************************************************************************)
C8_ExportExclusive ==
    /\ [](\A t \in Threads :
              IsExporting(t) =>
                  /\ \A m \in Mutexes \ {"window_renderer"} : held[m] = {t}
                  /\ loop # "rendering"
                  /\ \A u \in Threads \ {t} : ~IsExporting(u))
    /\ [][(\E t \in Threads : IsExporting(t)) =>
              UNCHANGED <<video_description, media_resources,
                          texture_pipeline_bind_groups>>]_vars

\* an export that has encoded a frame and is still running, a second
\* export it refused, and a redraw it sent to the fallback
C8_Witness ==
    \E t \in Threads :
        /\ IsExporting(t)
        /\ Len(exporter[t].encoded) >= 1
        /\ \E u \in Threads : exporter[u].pc = "refused" /\ t \in exporter[u].blocked_by
        /\ redraw.outcome = "fallback" /\ t \in redraw.blocked_by

\* the geometry of frame k (0-based) of the video does not compile
CompileFails(k) ==
    RenderDataNew(video_description.frames[k + 1], media_resources,
                  texture_pipeline_bind_groups).status = "panic"

\* the indices of the frames whose geometry does not compile
FailingFrames == {k \in 0..(Len(video_description.frames) - 1) : CompileFails(k)}

(***************************************************************************)
(* C11: when the geometry of frame K does not compile (tessellation        *)
(* failure or missing image), the export is aborted: no frame K or later   *)
(* is handed to the encoder, the progress callback is never invoked with   *)
(* an index >= K, and the export does not complete.                        *)
(***************************************************************************)
C11_CompileFailureAborts ==
    \A t \in Threads : \A K \in FailingFrames :
        /\ \A k \in 1..Len(exporter[t].encoded) : EncodedFrame(t, k).frame_index < K
        /\ \A k \in 1..Len(exporter[t].progress) : exporter[t].progress[k].payload < K
        /\ exporter[t].pc \notin {"finish", "done"}
        /\ exporter[t].finish_calls = 0

\* an export that was aborted at its third frame, after two frames were
\* encoded and reported
C11_Witness ==
    \E t \in Threads :
        /\ exporter[t].pc = "panicked"
        /\ exporter[t].panicked_in = "render"
        /\ exporter[t].frame_index = 2
        /\ CompileFails(2)
        /\ Len(exporter[t].encoded) = 2
        /\ Len(exporter[t].progress) = 2

C13_FailureReportsFrame ==
    \A t \in Threads :
        exporter[t].pc = "panicked" /\ exporter[t].panicked_in \in {"render", "encode"} =>
            \E k \in 1..Len(exporter[t].progress) :
                /\ exporter[t].progress[k].event # "encoded-frame"
                /\ exporter[t].progress[k].payload = exporter[t].frame_index

\* the event the progress callback emits for frame k (0-based)
EncodedFrameEvent(k) == [event |-> "encoded-frame", payload |-> k]

(***************************************************************************)
(* C14: the progress callback is invoked once per frame, with the frame's  *)
(* index, after the frame was handed to the encoder successfully and       *)
(* before the next frame is rendered: the reported indices are 0, 1, ..,   *)
(* one for each encoded frame; whenever frame K is about to be rendered or *)
(* has been rendered and awaits encoding, exactly 0..K-1 were reported;    *)
(* an export that left the loop has reported 0..N-1.                       *)
(***************************************************************************)
C14_ProgressOncePerFrame ==
    \A t \in Threads :
        /\ Len(exporter[t].progress) = Len(exporter[t].encoded)
        /\ \A k \in 1..Len(exporter[t].progress) :
               /\ exporter[t].progress[k] = EncodedFrameEvent(k - 1)
               /\ EncodedFrame(t, k).frame_index = k - 1
        /\ exporter[t].pc \in {"render", "encode"} =>
               Len(exporter[t].progress) = exporter[t].frame_index
        /\ exporter[t].pc \in {"finish", "done"} =>
               Len(exporter[t].progress) = Len(video_description.frames)

\* an export of three frames that completed and reported 0, 1, 2
C14_Witness ==
    \E t \in Threads :
        /\ exporter[t].pc = "done"
        /\ exporter[t].progress =
               <<EncodedFrameEvent(0), EncodedFrameEvent(1), EncodedFrameEvent(2)>>

(***************************************************************************)
(* C15: an export that completes has finalized the encoder exactly once;   *)
(* encoder.finish() is never called twice, and is called only after every  *)
(* frame of the video was encoded and reported to the progress callback;   *)
(* this includes the export of a video of zero frames.                     *)
(***************************************************************************)
C15_FinalizedOnce ==
    \A t \in Threads :
        /\ exporter[t].finish_calls <= 1
        /\ exporter[t].pc = "done" => exporter[t].finish_calls = 1
        /\ exporter[t].pc \in Exporting => exporter[t].finish_calls = 0
        /\ exporter[t].finish_calls >= 1 =>
               /\ Len(exporter[t].encoded) = Len(video_description.frames)
               /\ Len(exporter[t].progress) = Len(video_description.frames)

\* an export of two frames that completed and finalized the encoder
C15_Witness ==
    \E t \in Threads :
        /\ exporter[t].pc = "done"
        /\ Len(video_description.frames) = 2
        /\ Len(exporter[t].encoded) = 2
        /\ exporter[t].finish_calls = 1

\* an export of zero frames that completed and finalized the encoder
C15_ZeroFrames ==
    \E t \in Threads :
        /\ exporter[t].pc = "done"
        /\ video_description.frames = <<>>
        /\ exporter[t].finish_calls = 1

\* the step is one that ran the frame advance of mod.rs 171-188: the frame
\* was rendered, or Renderers::render returned without a renderer
AdvanceRan ==
    \/ loop = "rendering" /\ loop' \in {"events", "exit"}
    \/ /\ loop = "drain" /\ chan = <<>> /\ loop' \in {"events", "exit"}
       /\ \A m \in {"video_description", "media_resources"} : try_lock(m) = "Ok"

\* the step belongs to the rendering part of a redraw (mod.rs 163-234):
\* the renderer thread moves on from the drained channel or from the
\* rendering
RenderStep ==
    /\ loop = "rendering" \/ (loop = "drain" /\ chan = <<>>)
    /\ loop' # loop

(***************************************************************************)
(* C16: the rendering part of one redraw moves the play head by at most    *)
(* one frame, forward when playing forward and backward in reverse, never  *)
(* around an end; when it runs the frame advance while playing forward on  *)
(* the last frame the play head stays there and playing becomes false;     *)
(* while playing in reverse on frame 0 the play head stays at 0 and        *)
(* playing becomes false.                                                  *)
(***************************************************************************)
C16_NoWrapOneStep ==
    [][RenderStep =>
          /\ Distance(frame', frame) <= 1
          /\ ~reverse => frame' >= frame
          /\ reverse => frame' <= frame
          /\ AdvanceRan =>
                /\ frame' \in 0..(Len(video_description.frames) - 1)
                /\ ~reverse /\ frame = Len(video_description.frames) - 1 =>
                       frame' = frame /\ ~playing'
                /\ reverse /\ frame = 0 => frame' = 0 /\ ~playing']_vars

\* a video of two frames played in reverse that halted on frame 0: reverse
\* is only ever set together with playing, so playing was cleared by the
\* frame advance
C16_Witness ==
    /\ Len(video_description.frames) >= 2
    /\ redraw.outcome = "rendered"
    /\ reverse /\ ~playing /\ frame = 0

(***************************************************************************)
(* What the claims about transforms speak of: the plane maps and the       *)
(* matrix product, written out and not taken from Transformation2D.        *)
(***************************************************************************)
\* the points the maps are compared on
Points == {<<0, 0>>, <<1, 0>>, <<0, 1>>, <<2, -3>>}

\* p scaled by (sx, sy) about the origin
ScaleBy(scale, p) == <<scale.x * p[1], scale.y * p[2]>>

\* p rotated counterclockwise by angle about the origin
RotateBy(angle, p) ==
    <<Cos(angle) * p[1] - Sin(angle) * p[2], Sin(angle) * p[1] + Cos(angle) * p[2]>>

\* p moved by pos
TranslateBy(pos, p) == <<p[1] + pos.x, p[2] + pos.y>>

\* the local transforms of the nodes of a chain, outermost first
RECURSIVE ChainTransforms(_)
ChainTransforms(things) ==
    IF things = <<>> \/ things[1].tag = "Leaf" THEN <<>>
    ELSE <<things[1].transform>> \o ChainTransforms(things[1].children)

\* RenderData::new was called on a chain of n nodes over one leaf, and the
\* leaf was emitted
ChainCompiled(n) ==
    /\ stage = "compiled"
    /\ Len(scene.things) = 1
    /\ RightDepth(scene.things) = n
    /\ Size(scene.things) = n + 1
    /\ Len(objects) = 1

(***************************************************************************)
(* C17 as stated: the matrix of a transform {pos, scale, angle} maps every *)
(* point p to translate_pos(rotate_angle(scale_(sx,sy)(p))): a leaf under  *)
(* one node with that transform is emitted with a transformation that      *)
(* scales first, rotates second and translates last.                       *)
(***************************************************************************)
C17_ScaleRotateTranslate ==
    ChainCompiled(1) =>
        LET t == ChainTransforms(scene.things)[1]
        IN /\ objects[1].transformation = to_transformation(t)
           /\ \A p \in Points :
                  apply_to(objects[1].transformation, p) =
                      TranslateBy(t.pos, RotateBy(t.angle, ScaleBy(t.scale, p)))

\* the product of two 3x3 matrices: (a b)[i][j] is the sum over k of
\* a[i][k] b[k][j]
MatMul(a, b) ==
    [i \in 1..3 |-> [j \in 1..3 |-> a[i][1] * b[1][j] + a[i][2] * b[2][j] + a[i][3] * b[3][j]]]

\* the affine map of matrix m (third row 0 0 1) applied to point p
MatApply(m, p) ==
    <<m[1][1] * p[1] + m[1][2] * p[2] + m[1][3], m[2][1] * p[1] + m[2][2] * p[2] + m[2][3]>>

\* the matrices of the local transforms of the chain, outermost first
ChainMatrices ==
    [i \in 1..Len(ChainTransforms(scene.things)) |->
        to_transformation(ChainTransforms(scene.things)[i])]

(***************************************************************************)
(* C18: a leaf under three nested nodes with local transforms A, B, C      *)
(* (outermost first) is emitted with the transformation A o B o C: it      *)
(* equals (A o B) o C and A o (B o C), and it maps every point p to        *)
(* A(B(C(p))), the innermost transform applied first.                      *)
(***************************************************************************)
C18_CompositionAssociative ==
    ChainCompiled(3) =>
        LET A == ChainMatrices[1]
            B == ChainMatrices[2]
            C == ChainMatrices[3]
            effective == objects[1].transformation
        IN /\ effective = MatMul(MatMul(A, B), C)
           /\ effective = MatMul(A, MatMul(B, C))
           /\ \A p \in Points :
                  /\ apply_to(effective, p) = MatApply(MatMul(A, MatMul(B, C)), p)
                  /\ apply_to(effective, p) = MatApply(A, MatApply(B, MatApply(C, p)))

\* a leaf under three nodes whose transforms do not commute: composed in
\* the opposite order they give another matrix
C18_Witness ==
    /\ ChainCompiled(3)
    /\ objects[1].transformation #
           MatMul(ChainMatrices[3], MatMul(ChainMatrices[2], ChainMatrices[1]))
    /\ ChainTransforms(scene.things)[1].angle = 90
    /\ ChainTransforms(scene.things)[2].scale = Point(2, 3)
    /\ ChainTransforms(scene.things)[3].pos = Point(1, 2)

(***************************************************************************)
(* What the claims about draw batches speak of: the geometry every         *)
(* primitive of the flattened list contributes, counted from the list.     *)
(***************************************************************************)
\* the pipeline that draws a primitive of this kind
PipelineOf(object) ==
    IF object.kind = "Img" THEN "texture_pipeline" ELSE "triangle_pipeline"

\* the vertices and the indices primitive object contributes: the four
\* corners of an image (drawn with the six indices of RECT), the
\* tessellation of a path
VertexCount(object) == IF object.kind = "Img" THEN 4 ELSE tessellate_path(object).vertices
IndexCount(object) == IF object.kind = "Img" THEN 6 ELSE tessellate_path(object).indices

\* the vertices appended to the vertex buffer of the kind of primitive i by
\* the primitives before it in the flattened list
VerticesBefore(i) ==
    LET VB[j \in 0..(i - 1)] ==
            IF j = 0 THEN 0
            ELSE VB[j - 1] + (IF objects[j].object.kind = objects[i].object.kind
                              THEN VertexCount(objects[j].object) ELSE 0)
    IN VB[i - 1]

\* the indices appended to the triangle index buffer by the paths before
\* primitive i
IndicesBefore(i) ==
    LET IB[j \in 0..(i - 1)] ==
            IF j = 0 THEN 0
            ELSE IB[j - 1] + (IF objects[j].object.kind = "Bezier"
                              THEN IndexCount(objects[j].object) ELSE 0)
    IN IB[i - 1]

\* RenderData::new returned for the frame
Compiled == stage = "compiled" /\ render_data.status = "ok"

\* what ImageRenderer::render draws for the frame
FrameDrawCalls ==
    ImageRendererRender(scene, registry, texture_pipeline(registry)).image.drawn

(***************************************************************************)
(* C19: render_order holds one batch per primitive of the flattened list,  *)
(* in the order of the list: the i-th batch has the pipeline of the i-th   *)
(* primitive, the bind group of its image, and starts at the vertices that *)
(* primitive appended; ImageRenderer::render issues one draw call per      *)
(* batch in the same order.                                                *)
(***************************************************************************)
C19_BatchOrder ==
    Compiled =>
        /\ Len(render_data.render_order) = Len(objects)
        /\ Len(FrameDrawCalls) = Len(objects)
        /\ \A i \in 1..Len(objects) :
               LET object == objects[i].object
                   batch == render_data.render_order[i]
                   call == FrameDrawCalls[i]
               IN /\ batch.pipeline = PipelineOf(object)
                  /\ object.kind = "Img" => batch.bind_group = object.id
                  /\ batch.vertices_range[1] = VerticesBefore(i)
                  /\ call.pipeline = PipelineOf(object)
                  /\ object.kind = "Img" => call.bind_group = object.id
                  /\ call = Draw(batch)

\* a frame of an image, a path and another image, compiled in this order
C19_Witness ==
    /\ Compiled
    /\ Len(objects) = 3
    /\ objects[1].object = Img(2)
    /\ objects[2].object = Bezier("ok")
    /\ objects[3].object = Img(1)

\* the size in bytes of a TextureVertex { position: [f32; 2], tex_coords:
\* [f32; 2] } and of a ColorVertex { position: [f32; 2], color: [f32; 3] }
TextureVertexSize == 16
ColorVertexSize == 20

\* the size in bytes of a vertex of primitive object
VertexSize(object) ==
    IF object.kind = "Img" THEN TextureVertexSize ELSE ColorVertexSize

(***************************************************************************)
(* C20 as stated: the draw call of every batch binds, as its vertex-buffer *)
(* slice, the byte range of the vertices its primitive appended (from      *)
(* first vertex index times vertex size, for its number of vertices), and  *)
(* draws the element range of the indices its primitive appended (for an   *)
(* image the six indices of the shared rectangle); the byte slices of two  *)
(* batches of the same kind do not overlap.                                *)
(***************************************************************************)
C20_BatchAddressesOwnGeometry ==
    Compiled =>
        \A i \in 1..Len(objects) :
            LET object == objects[i].object
                call == FrameDrawCalls[i]
                first == VerticesBefore(i)
            IN /\ call.vertex_bytes =
                      <<first * VertexSize(object),
                        (first + VertexCount(object)) * VertexSize(object)>>
               /\ call.indices =
                      IF object.kind = "Img" THEN <<0, 6>>
                      ELSE <<IndicesBefore(i), IndicesBefore(i) + IndexCount(object)>>
               /\ \A j \in (i + 1)..Len(objects) :
                      objects[j].object.kind = object.kind =>
                          call.vertex_bytes[2] <= FrameDrawCalls[j].vertex_bytes[1]

\* the redraw handler ran to its end: the window renderer was handed an
\* image and the surface result was matched
RedrawMatched == redraw.outcome \in {"rendered", "surface_error", "fallback"}

(***************************************************************************)
(* C22: the surface result of a redraw is handled by its class: on Lost    *)
(* and Outdated the surface is reconfigured and the loop goes on; on       *)
(* OutOfMemory the control flow is Exit; on Timeout the handler only logs  *)
(* and the loop goes on; on Ok nothing is done. The loop is left on        *)
(* OutOfMemory only.                                                       *)
(***************************************************************************)
C22_SurfaceErrorClasses ==
    /\ RedrawMatched =>
           /\ redraw.surface \in {"Lost", "Outdated"} =>
                  redraw.reconfigured /\ ~redraw.logged /\ loop = "events"
           /\ redraw.surface = "OutOfMemory" =>
                  ~redraw.reconfigured /\ ~redraw.logged /\ loop = "exit"
           /\ redraw.surface = "Timeout" =>
                  ~redraw.reconfigured /\ redraw.logged /\ loop = "events"
           /\ redraw.surface = "Ok" =>
                  ~redraw.reconfigured /\ ~redraw.logged /\ loop = "events"
    /\ loop = "exit" => RedrawMatched /\ redraw.surface = "OutOfMemory"

\* a redraw whose frame was rendered and whose surface was lost: the
\* surface was reconfigured and the loop waits for the next event
C22_Witness ==
    /\ redraw.outcome = "surface_error"
    /\ redraw.surface = "Lost"
    /\ redraw.reconfigured
    /\ loop = "events"

\* the redraw handler has drained the channel and holds what it needs to
\* reach frames[frame] (mod.rs 164-169)
AboutToIndex ==
    /\ loop = "drain"
    /\ chan = <<>>
    /\ \A m \in {"video_description", "media_resources"} : try_lock(m) = "Ok"

(***************************************************************************)
(* C30 as stated: whenever the redraw handler indexes frames[frame], the   *)
(* frame list is not empty and the play head is inside it.                 *)
(***************************************************************************)
C30_PlayHeadInBounds ==
    AboutToIndex =>
        /\ Len(video_description.frames) >= 1
        /\ frame < Len(video_description.frames)

\* the clear colour (r, g, b, a) of an RGB8 background whose channels are
\* 0 or 255
ClearColorOf(bg) == <<bg[1] \div 255, bg[2] \div 255, bg[3] \div 255, 1>>

(***************************************************************************)
(* C29 as stated: every frame handed to the encoder was rendered over its  *)
(* own background: the target was cleared to settings.bg of that frame     *)
(* (black when omitted), so frames that differ in bg differ in their       *)
(* cleared target.                                                         *)
(***************************************************************************)
C29_ClearedToBackground ==
    \A t \in Threads : \A k \in 1..Len(exporter[t].encoded) :
        EncodedFrame(t, k).image.clear =
            ClearColorOf(video_description.frames[k].settings.bg)

(***************************************************************************)
(* C25 as stated: the flattener is breadth-first. The nodes are dequeued   *)
(* level by level (a node's level is the length of its path: every root    *)
(* before any child node, level k before level k+1), and so the leaves     *)
(* are discovered level by level, which is the order equal-depth leaves    *)
(* keep in the output.                                                     *)
(***************************************************************************)
C25_BreadthFirst ==
    stage = "compiled" =>
        /\ \A i, j \in 1..Len(Dequeued(scene)) :
               i < j => Len(Dequeued(scene)[i]) <= Len(Dequeued(scene)[j])
        /\ \A i, j \in 1..Len(discovered) :
               i < j => Len(discovered[i].path) <= Len(discovered[j].path)

\* the identity matrix
IdentityMatrix == << <<1, 0, 0>>, <<0, 1, 0>>, <<0, 0, 1>> >>

RECURSIVE ProductTo(_, _, _)
\* the product of the local matrices of the first k ancestors of the leaf
\* at path, root first
ProductTo(things, path, k) ==
    IF k = 0 THEN IdentityMatrix
    ELSE MatMul(ProductTo(things, path, k - 1),
                to_transformation(AncestorOf(things, path, k).transform))

\* the product of the local matrices of all ancestors of the leaf at path
PathProduct(things, path) == ProductTo(things, path, Len(path) - 1)

(***************************************************************************)
(* C26: every leaf the traversal emits carries the sum of the depths of    *)
(* the nodes on its own path from the root to its parent, and the product  *)
(* of their local matrices in root-to-parent order, starting from depth 0  *)
(* and the identity; nothing of a sibling or a cousin enters. The same     *)
(* transformation is paired with the leaf in the list returned.            *)
(***************************************************************************)
C26_OwnPathAccumulation ==
    stage = "compiled" =>
        /\ {discovered[i].path : i \in 1..Len(discovered)} = LeafPaths(scene.things, <<>>)
        /\ \A i \in 1..Len(discovered) :
               /\ discovered[i].z = CombinedDepth(scene.things, discovered[i].path)
               /\ \A k \in 1..3 : \A l \in 1..3 :
                      discovered[i].transformation[k][l] =
                          PathProduct(scene.things, discovered[i].path)[k][l]
        /\ \A i \in 1..Len(objects) :
               \A k \in 1..3 : \A l \in 1..3 :
                   objects[i].transformation[k][l] =
                       PathProduct(scene.things, objects[i].path)[k][l]

\* two sibling roots of different depth and transform, a leaf under each:
\* the two leaves are emitted with different depths and different
\* transformations
C26_Witness ==
    /\ stage = "compiled"
    /\ Len(scene.things) = 2
    /\ Len(discovered) = 2
    /\ discovered[1].path[1] # discovered[2].path[1]
    /\ discovered[1].z # discovered[2].z
    /\ discovered[1].transformation # discovered[2].transformation

\* a leaf under a node under a root, the two of different depth and
\* transform, beside a leaf of the root itself
C26_Nested ==
    /\ stage = "compiled"
    /\ Len(scene.things) = 1
    /\ Len(discovered) = 2
    /\ \E i \in 1..2 :
           /\ Len(discovered[i].path) = 3
           /\ discovered[i].z = 1
           /\ AncestorOf(scene.things, discovered[i].path, 1).transform #
                  AncestorOf(scene.things, discovered[i].path, 2).transform

\* the homogeneous coordinate w that apply_to divides by: the third row of
\* m times (x, y, 1)
HomogeneousW(m, p) == m[3][1] * p[1] + m[3][2] * p[2] + m[3][3]

(***************************************************************************)
(* C27: the matrix of every local transform, and every product of such     *)
(* matrices the flattener pairs with a leaf, has third row (0, 0, 1), so   *)
(* the w apply_to divides by is 1 for every point, never 0.                *)
(***************************************************************************)
C27_AffineThirdRow ==
    /\ \A i \in 1..Len(ChainMatrices) : ChainMatrices[i][3] = <<0, 0, 1>>
    /\ \A i \in 1..Len(discovered) :
           /\ discovered[i].transformation[3] = <<0, 0, 1>>
           /\ \A p \in Points : HomogeneousW(discovered[i].transformation, p) = 1
    /\ \A i \in 1..Len(objects) :
           /\ objects[i].transformation[3] = <<0, 0, 1>>
           /\ \A p \in Points : HomogeneousW(objects[i].transformation, p) = 1

\* a leaf under three nodes that each displace, scale and rotate
C27_Witness ==
    /\ ChainCompiled(3)
    /\ \A i \in 1..3 :
           ChainTransforms(scene.things)[i] = Transform(Point(1, 2), Point(2, 3), 90)
    /\ objects[1].transformation[3] = <<0, 0, 1>>

(***************************************************************************)
(* What the claims about one primitive speak of.                           *)
(***************************************************************************)
\* RenderData::new compiled the one placed primitive, of the given kind
PrimitiveCompiled(kind) ==
    /\ stage = "compiled"
    /\ render_data.status = "ok"
    /\ Len(scene.things) = 1
    /\ Len(objects) = 1
    /\ objects[1].object.kind = kind

\* the local transform of the node the primitive sits in
PlacedTransform == scene.things[1].transform

\* the primitive as the caller placed it
PlacedObject == scene.things[1].children[1].object

\* the image of p under the matrix to_transformation builds for t: the
\* rotation, then the scale, then the displacement
EffectiveImage(t, p) == TranslateBy(t.pos, ScaleBy(t.scale, RotateBy(t.angle, p)))

\* the Euclidean distance of a and b, where it is a whole number
EuclideanDistance(a, b) ==
    CHOOSE r \in 0..((b[1] - a[1]) ^ 2 + (b[2] - a[2]) ^ 2) :
        r * r = (b[1] - a[1]) ^ 2 + (b[2] - a[2]) ^ 2

\* C21 as stated: the line width given to the tessellator is the thickness
\* of the Bezier times the Euclidean distance between the images of the
\* origin and of a unit basis vector under the effective transform.
C21_EuclideanStrokeWidth ==
    PrimitiveCompiled("Bezier") =>
        LET t == PlacedTransform
            origin == EffectiveImage(t, <<0, 0>>)
            line_width == render_data.strokes[1].stroke_options.line_width
        IN \E unit \in {<<1, 0>>, <<0, 1>>} :
               line_width =
                   PlacedObject.thickness
                   * EuclideanDistance(origin, EffectiveImage(t, unit))

\* the corners of the unit rect [0,1] x [0,1]
UnitCorners == {<<0, 0>>, <<1, 0>>, <<0, 1>>, <<1, 1>>}

\* C23: an Img with no subrect gets texture coordinates over the full unit
\* rect: the four vertices of its quad carry the four corners of
\* [0,1] x [0,1], each corner on exactly one vertex.
C23_DefaultSubrectFullRect ==
    (PrimitiveCompiled("Img") /\ PlacedObject.subrect = NoSubrect) =>
        /\ Len(render_data.quads) = 1
        /\ LET quad == render_data.quads[1]
           IN /\ DOMAIN quad = 1..4
              /\ \A corner \in UnitCorners :
                     Cardinality({i \in 1..4 : quad[i].tex_coords = corner}) = 1

\* an Img without a subrect was compiled into a quad
C23_Witness ==
    /\ PrimitiveCompiled("Img")
    /\ PlacedObject.subrect = NoSubrect
    /\ Len(render_data.quads) = 1
    /\ render_data.quads[1][1].tex_coords = <<0, 1>>

\* the image of a control point under the effective transform t
ImagePoint(t, point) ==
    LET q == EffectiveImage(t, <<point.x, point.y>>) IN Point(q[1], q[2])

\* m is the point halfway between a and b
IsMidpoint(m, a, b) == 2 * m.x = a.x + b.x /\ 2 * m.y = a.y + b.y

\* C28: for a Bezier with control points p0, p1, p2 under the effective
\* transform T, the path handed to the tessellator is the single cubic from
\* T(p0) to T(p2) with control points mid(T(p0), T(p1)) and
\* mid(T(p1), T(p2)), and the path is left open.
C28_CubicFromThreePoints ==
    PrimitiveCompiled("Bezier") =>
        /\ Len(render_data.strokes) = 1
        /\ LET path == render_data.strokes[1].path
               p0 == ImagePoint(PlacedTransform, PlacedObject.points[1])
               p1 == ImagePoint(PlacedTransform, PlacedObject.points[2])
               p2 == ImagePoint(PlacedTransform, PlacedObject.points[3])
           IN /\ path.begin = p0
              /\ IsMidpoint(path.ctrl1, p0, p1)
              /\ IsMidpoint(path.ctrl2, p1, p2)
              /\ path.to = p2
              /\ path.close = FALSE

\* a Bezier under a transform that moves, scales and turns was compiled, and
\* its control points are four different points
C28_Witness ==
    /\ PrimitiveCompiled("Bezier")
    /\ PlacedTransform = Transform(Point(1, 2), Point(2, 3), 90)
    /\ LET path == render_data.strokes[1].path
       IN Cardinality({path.begin, path.ctrl1, path.ctrl2, path.to}) = 4

\* the value of a colour channel lies in the power-law segment
InPowerSegment(c) == c * 100000 > 4045 * 255

\* C24: to_linear_rgb maps the channel value 0 to 0 and 255 to 1, and is
\* monotonic non-decreasing over the channel values 0..255, across the
\* threshold between the linear and the power-law segment too: the colour of
\* the vertices of a compiled Bezier is, channel by channel, 0 for 0, one for
\* 255, and at most what the next channel value is mapped to.
C24_LinearizationMonotonic ==
    PrimitiveCompiled("Bezier") =>
        LET color == PlacedObject.color
            linear == render_data.strokes[1].color
        IN \A i \in 1..3 :
               /\ linear[i] \in 0..FixedOne
               /\ color[i] = 0 => linear[i] = 0
               /\ color[i] = 255 => linear[i] = FixedOne
               /\ color[i] < 255 =>
                      linear[i] <= to_linear_rgb(Color(color[i] + 1, 0, 0))[1]
               /\ \A j \in 1..3 : color[i] <= color[j] => linear[i] <= linear[j]

\* a Bezier was compiled whose red channel is the last value of the linear
\* segment and is mapped below the first value of the power-law segment, and
\* whose green channel is mapped strictly between 0 and one
C24_Witness ==
    /\ PrimitiveCompiled("Bezier")
    /\ LET color == PlacedObject.color
           linear == render_data.strokes[1].color
       IN /\ ~InPowerSegment(color[1])
          /\ InPowerSegment(color[1] + 1)
          /\ 0 < linear[1]
          /\ linear[1] < to_linear_rgb(Color(color[1] + 1, 0, 0))[1]
          /\ linear[1] < linear[3]
          /\ linear[3] < linear[2]
          /\ linear[2] < FixedOne

\* C39 as stated: an Img with subrect {x, y, w, h} gets texture coordinates
\* that span from x to x + w and, v flipped, from 1 - y to 1 - (y + h): w
\* and h are the extent of the sub-rectangle.
C39_SubrectExtent ==
    (PrimitiveCompiled("Img") /\ PlacedObject.subrect # NoSubrect) =>
        LET subrect == PlacedObject.subrect[1]
            quad == render_data.quads[1]
        IN /\ {quad[i].tex_coords[1] : i \in 1..4} = {subrect.x, subrect.x + subrect.w}
           /\ {quad[i].tex_coords[2] : i \in 1..4} =
                  {1 - subrect.y, 1 - (subrect.y + subrect.h)}

(***************************************************************************)
(* What the claims about the commands and the signals speak of.            *)
(***************************************************************************)
\* the signal of the stop that follows new media resources
StopSignal == SetPlayback(Playback(FALSE, FALSE, At(0)))

\* some resource listed in res fails to load
SomeFails(res) == \E i \in DOMAIN res : ~path_to_resource(res[i][2]).ok

\* the ids listed in res
ListedIds(res) == {res[i][1] : i \in DOMAIN res}

\* C38: update_media_resources is all-or-nothing: if a listed resource fails
\* to load the command returns an error and sends no signal, the state of
\* the renderer staying as it is; if all load it sends one
\* UpdateMediaResources with every listed image and then one
\* SetPlayback { playing: false, reverse: false, frame: At(0) }.
C38_AllOrNothing ==
    [][\A res \in MediaRequests :
           update_media_resources(res) =>
               IF SomeFails(res)
               THEN /\ reply' = "Err"
                    /\ chan' = chan
                    /\ UNCHANGED <<loopVars, lockVars, exporter>>
               ELSE /\ reply' = "Ok"
                    /\ Len(chan') = Len(chan) + 2
                    /\ SubSeq(chan', 1, Len(chan)) = chan
                    /\ chan'[Len(chan) + 1].type = "UpdateMediaResources"
                    /\ DOMAIN chan'[Len(chan) + 1].resources = ListedIds(res)
                    /\ chan'[Len(chan) + 2] = StopSignal]_vars

\* a call whose two resources loaded sent its two signals, and the call
\* after it failed and sent none
C38_Witness ==
    /\ reply = "Err"
    /\ Len(chan) = 2
    /\ chan[1].type = "UpdateMediaResources"
    /\ DOMAIN chan[1].resources = {1, 2}
    /\ chan[2] = StopSignal

\* run has built its window and its renderers (mod.rs 50-60)
WindowCreated == loop # "wait"

\* C37: the window and the renderers are created only after the first
\* UpdateMediaResources has been received, and every other signal received
\* before it is consumed without effect: a receive of the startup wait
\* takes the oldest signal; an UpdateMediaResources ends the wait with its
\* resources installed, any other signal leaves everything but the channel
\* as it was; and the wait ends in no other way.
C37_StartupDiscards ==
    [][~WindowCreated =>
           /\ WindowCreated' =>
                  /\ chan # <<>>
                  /\ Head(chan).type = "UpdateMediaResources"
                  /\ chan' = Tail(chan)
                  /\ media_resources' = Head(chan).resources
           /\ Len(chan') < Len(chan) => chan' = Tail(chan)
           /\ (Len(chan') < Len(chan) /\ Head(chan).type # "UpdateMediaResources") =>
                  UNCHANGED <<loop, video_description, media_resources,
                              texture_pipeline_bind_groups, reverse, playing, frame,
                              latest_image, redraw, lockVars, exporter>>
           /\ UNCHANGED <<video_description, reverse, playing, frame, latest_image,
                          lockVars, exporter>>]_vars

\* a command was answered, its signal is gone from the channel, and run is
\* still waiting: a signal other than UpdateMediaResources was consumed
C37_Witness ==
    /\ ~WindowCreated
    /\ reply = "Ok"
    /\ chan = <<>>
    /\ video_description = InitialVideoDescription

\* the step takes a signal out of the channel during the drain of a redraw
Dequeues == loop = "drain" /\ Len(chan') < Len(chan)

\* the step ends the drain of a redraw: the frame is handed to the
\* renderers, or the redraw falls back or fails
DrainEnds == loop = "drain" /\ loop' # "drain"

\* C36: on each redraw the pending signals are taken out of the channel and
\* handled in the order they were sent before the frame is rendered: the
\* drain takes the oldest signal, one at a time, and applies that signal
\* (the flags of a SetPlayback; a video description or media resources
\* whose locks are free); and the drain ends only on an empty channel, so
\* the frame is rendered from the state every dequeued signal left.
C36_DrainedInOrderBeforeRender ==
    [][/\ Dequeues =>
              /\ chan' = Tail(chan)
              /\ loop' = "drain"
              /\ Head(chan).type = "SetPlayback" =>
                     /\ playing' = Head(chan).playback.playing
                     /\ reverse' = Head(chan).playback.reverse
              /\ (Head(chan).type = "UpdateVideoDescription"
                    /\ try_lock("video_description") = "Ok") =>
                     video_description' = Head(chan).video
              /\ (Head(chan).type = "UpdateMediaResources"
                    /\ try_lock("media_resources") = "Ok"
                    /\ try_lock("image_renderer") = "Ok") =>
                     media_resources' = Head(chan).resources
       /\ DrainEnds => chan = <<>>
       /\ (DrainEnds /\ loop' = "rendering") =>
              UNCHANGED <<video_description, media_resources, reverse, playing, frame>>]_vars

\* a frame is being rendered after the drain installed a video and media
\* resources and applied the stop that followed them
C36_Witness ==
    /\ loop = "rendering"
    /\ latest_image = NoImage
    /\ Len(video_description.frames) = 2
    /\ DOMAIN media_resources = {1, 2}
    /\ ~playing
    /\ chan = <<>>

\* export thread t has ended without entering export_video: its if let
\* did not match and the closure returned, nothing encoded, nothing said
EndedSilently(t) ==
    /\ exporter[t].pc = "refused"
    /\ exporter[t].encoded = <<>>
    /\ exporter[t].panicked_in = "none"

\* C31 as stated: every ExportVideo signal the render loop receives leads
\* to an export that runs: no export thread ends without having encoded a
\* frame and without an error.
C31_ExportRuns == \A t \in Threads : ~EndedSilently(t)

\* the step takes an UpdateVideoDescription out of the channel
DequeuesVideoDescription ==
    /\ Dequeues
    /\ Head(chan).type = "UpdateVideoDescription"

\* C32 as stated: every UpdateVideoDescription the render loop receives is
\* reflected in the video description used for rendering and export, none
\* is discarded because the description was locked when the signal was
\* dequeued: the step that dequeues it installs it.
C32_VideoDescriptionNotDropped ==
    [][DequeuesVideoDescription => video_description' = Head(chan).video]_vars

\* the step takes a SetPlayback that asks for a play-head change out of the
\* channel
DequeuesSetFrame ==
    /\ Dequeues
    /\ Head(chan).type = "SetPlayback"
    /\ Head(chan).playback.frame.kind # "None"

\* C33 as stated: a SetPlayback is applied atomically: either playing,
\* reverse and the requested play-head change all take effect, or none of
\* them does.
C33_SetPlaybackAtomic ==
    [][DequeuesSetFrame =>
           \/ /\ playing' = Head(chan).playback.playing
              /\ reverse' = Head(chan).playback.reverse
              /\ frame' = SetFrameTarget(Head(chan).playback.frame)
           \/ UNCHANGED <<playing, reverse, frame>>]_vars

\* export thread t is at one of its lock acquisitions (mod.rs 113-117)
ExportAtLock(t) ==
    exporter[t].pc \in {"try_image_renderer", "try_video_description",
                        "try_media_resources"}

\* the lock acquisition export thread t is at can be taken
ExportCanLock(t) ==
    ENABLED (\/ ExportTryImageRenderer(t)
             \/ ExportTryVideoDescription(t)
             \/ ExportTryMediaResources(t))

\* the renderer thread is at a lock acquisition: the blocking lock that
\* begins a redraw, or the try_lock calls of the drain and of the render
LoopAtLock == loop \in {"events", "drain"}

\* the step of the renderer thread that takes its locks can be taken
LoopCanLock ==
    ENABLED (\/ RedrawRequested
             \/ DrainExportVideo
             \/ DrainSetPlayback
             \/ DrainUpdateVideoDescription
             \/ DrainUpdateMediaResources
             \/ RenderBegin)

\* C34: the render loop and the export threads never deadlock: the window
\* renderer, the only mutex taken with a blocking lock, is never held by an
\* export thread and is free whenever the renderer thread comes to lock it;
\* and in every reachable state a thread that is at a lock acquisition can
\* take that step, so none waits for a lock.
C34_NoDeadlock ==
    /\ \A t \in Threads : t \notin held["window_renderer"]
    /\ loop = "events" => lock("window_renderer")
    /\ LoopAtLock => LoopCanLock
    /\ \A t \in Threads : (Running /\ ExportAtLock(t)) => ExportCanLock(t)

\* an export thread holds its three guards inside export_video while the
\* renderer thread, its frame rendered before the export began, is about
\* to lock the window renderer
C34_Witness ==
    /\ loop = "events"
    /\ latest_image # NoImage
    /\ \E t \in Threads :
           /\ exporter[t].pc \in Exporting
           /\ \A m \in Mutexes \ {"window_renderer"} : held[m] = {t}


\* what an export reads: the frame list, the fps and the image registry
\* with the bind groups made from it
Snapshot ==
    [frames |-> video_description.frames,
     fps |-> video_description.fps,
     resources |-> media_resources,
     bind_groups |-> texture_pipeline_bind_groups]

\* the encoder position after k frames of a video of the given fps
RECURSIVE PositionAfter(_, _)
PositionAfter(k, fps) ==
    IF k = 0
    THEN Time(0, ZeroTimeBase)
    ELSE aligned_with_add(PositionAfter(k - 1, fps), from_nth_of_a_second(fps))

\* the k-th frame export thread t encoded is the rendering of frame k of
\* the snapshot, stamped from the fps of the snapshot
FromSnapshot(t, k) ==
    /\ EncodedFrame(t, k).image =
           ImageRendererRender(Snapshot.frames[k], Snapshot.resources,
                               Snapshot.bind_groups).image
    /\ EncodedFrame(t, k).pts =
           rescale(PositionAfter(k, Snapshot.fps).time,
                   PositionAfter(k, Snapshot.fps).time_base, EncoderTimeBase)

\* C35: an export encodes one consistent snapshot: no step taken while an
\* export thread is inside export_video changes the frame list, the fps,
\* the image registry or its bind groups, and every frame the thread has
\* encoded is the rendering of the frame of that index of the snapshot,
\* stamped from its fps; past the last frame all N frames are encoded.
C35_ConsistentSnapshot ==
    /\ [](\A t \in Threads :
              IsExporting(t) =>
                  /\ Len(exporter[t].encoded) <= Len(Snapshot.frames)
                  /\ \A k \in 1..Len(exporter[t].encoded) : FromSnapshot(t, k)
                  /\ exporter[t].pc = "finish" =>
                         Len(exporter[t].encoded) = Len(Snapshot.frames))
    /\ [][\A t \in Threads : IsExporting(t) => Snapshot' = Snapshot]_vars

\* an export that has encoded its first frame of two while a new video
\* description, dequeued next by the drain, differs from the one it reads
C35_Witness ==
    \E t \in Threads :
        /\ IsExporting(t)
        /\ Len(exporter[t].encoded) = 1
        /\ Len(Snapshot.frames) = 2
        /\ loop = "drain"
        /\ chan # <<>>
        /\ try_recv(chan).signal.type = "UpdateVideoDescription"
        /\ try_recv(chan).signal.video # video_description

=============================================================================
